---- MODULE Spec2Model ----
(***************************************************************************)
(* Model of smrt's orchestration layer: make_model, Model.run /            *)
(* prepare_simulations, the three runners (core/model.py) and              *)
(* concat_results (core/result.py).                                        *)
(*                                                                         *)
(* A ResultEntity is modelled as a labelled array in row-major layout:     *)
(*   cls         "P" (PassiveResult) or "A" (ActiveResult)                 *)
(*   dims        the dimension names, outermost first                      *)
(*   coords      the labels of each dimension                              *)
(*   data        the cells, row-major (the last dimension varies fastest)  *)
(*   channel_map channel name -> (coordinate name -> value)                *)
(* The result of one simulation unit is a 0-dimensional entity whose only  *)
(* cell is the unit itself (the solver is external: its value is opaque).  *)
(***************************************************************************)
EXTENDS Integers, Sequences, FiniteSets, TLC

\* ------------------------------------------------------------------ bounds
\* longest list of values of one sensor axis
MaxAxisLen == 2
\* longest snowpack collection
MaxSnow == 2
\* largest chunk size given to DaskParallelRunner
MaxChunk == 2
\* longest result list given to concat_results on its own
MaxList == 2
\* longest sequence given as a keyword argument of make_interface
MaxSeq == 3
\* most incidence angles of an active result
MaxAngles == 2

VARIABLES
    sensor,                 \* run(sensor=...): the declared axes, in order
    capability,             \* rtsolver._broadcast_capability
    snowpack,               \* run(snowpack=...)
    snowpack_dimension,     \* run(snowpack_dimension=...)
    runner,                 \* run(runner=...): "none", "dask" or "custom"
    chunk,                  \* DaskParallelRunner.chunk
    parallel_computation,   \* run(parallel_computation=...)
    progressbar,            \* run(progressbar=...)
    atmosphere,             \* run(atmosphere=...): "none" or "given"
    pc,                     \* position of the call of Model.run
    simulations,            \* the flat list of units of prepare_simulations
    dimensions,             \* the axis descriptors of prepare_simulations
    strategy,               \* the runner Model.run selected
    slots,                  \* the tasks / futures of a parallel runner
    results,                \* the flat list the runner returned
    outcome,                \* "none" while running, "ok", or the exception
    entity,                 \* the value Model.run returned
    uneven,                 \* the fold met a list that is no multiple of n
    overtaken,              \* a unit finished before a unit submitted earlier
    result_list,            \* concat_results(result_list, coord) called alone
    coord,
    concat_out,             \* what that call returned or raised
    emmodel_options,        \* make_model(emmodel_options=...)
    rtsolver_options,       \* make_model(rtsolver_options=...)
    emmodel_kwargs,         \* make_model(emmodel_kwargs=...), the legacy name
    rtsolver_kwargs,        \* make_model(rtsolver_kwargs=...), the legacy name
    model,                  \* the Model that make_model returned
    inst_class_or_modulename,   \* make_interface(inst_class_or_modulename, ...)
    broadcast,              \* make_interface(broadcast=...)
    kwargs,                 \* make_interface(**kwargs)
    constructed,            \* the constructor calls make_interface made
    iface_out,              \* what make_interface returned or raised
    interface_cls,          \* substrate_from_interface(interface_cls): its raw operations
    cls,                    \* the decorated class: the operations it defines
    newcls,                 \* the class the decorator returned
    temperature,            \* the substrate built from newcls
    permittivity_model,
    call,                   \* the boundary operation called on the substrate
    raw_calls,              \* the calls of raw operations of interface_cls
    sub_out,                \* what the boundary operation returned or raised
    result,                 \* a Result whose accessor is called
    accessor,               \* the accessor: sel_data, Tb, sigma, sigmaVV_dB, ...
    channel,                \* accessor(channel=...), "none" for None
    sel_kwargs,             \* accessor(**kwargs): dimension name -> label
    sel_out,                \* what the accessor returned or raised
    stored,                 \* the array of a file written by Result.save
    opened,                 \* what open_result(filename) read and returned
    emmodel,                \* Model.emmodel: one class or a list of classes
    layer_options,          \* Model.emmodel_options: one dict or a list of dicts
    rtsolver,               \* Model.rtsolver: "class", "instance" or "reentrant"
    nlayer,                 \* snowpack.nlayer of every snowpack
    executed,               \* the units run_single_simulation was called on
    solver_calls            \* the units rtsolver.solve was called on

vars == <<sensor, capability, snowpack, snowpack_dimension, runner, chunk,
          parallel_computation, progressbar, pc, simulations, dimensions,
          strategy, slots, results, outcome, entity, uneven, overtaken,
          result_list, coord, concat_out, atmosphere, emmodel_options,
          rtsolver_options, emmodel_kwargs, rtsolver_kwargs, model,
          inst_class_or_modulename, broadcast, kwargs, constructed, iface_out,
          interface_cls, cls, newcls, temperature, permittivity_model, call,
          raw_calls, sub_out, result, accessor, channel, sel_kwargs, sel_out,
          stored, opened,
          emmodel, layer_options, rtsolver, nlayer, executed, solver_calls>>

inputs == <<sensor, capability, snowpack, snowpack_dimension, runner, chunk,
            parallel_computation, progressbar, atmosphere, emmodel,
            layer_options, rtsolver, nlayer>>

unit_log == <<executed, solver_calls>>

concat_vars == <<result_list, coord, concat_out>>

make_vars == <<emmodel_options, rtsolver_options, emmodel_kwargs,
               rtsolver_kwargs, model>>

iface_vars == <<inst_class_or_modulename, broadcast, kwargs, constructed,
                iface_out>>

substrate_vars == <<interface_cls, cls, newcls, temperature,
                    permittivity_model, call, raw_calls, sub_out>>

sel_vars == <<result, accessor, channel, sel_kwargs, sel_out, stored, opened>>

\* what a step of Model.run leaves alone
outside_run == <<concat_vars, make_vars, iface_vars, substrate_vars, sel_vars>>

\* ----------------------------------------------------------------- helpers
Min(a, b) == IF a < b THEN a ELSE b

\* (a faulty variant: the labels count from 1, as the docstring of run says)
PyRangeFromOne(n) == [i \in 1..n |-> i]

\* the python range(n) as a list: 0 .. n-1
PyRange(n) == [i \in 1..n |-> i - 1]

EmptyMap == [x \in {} |-> 0]

\* ------------------------------------------------------------------ sensor
\* The sensor class (core/sensor.py) is modelled from the specification's
\* SensorConfiguration: configurations() lists the axes
\* as (axis, values) in declaration order, iterate(axis) yields one narrower
\* sensor per value of the axis, in the order of the values.
AxisNames == {"frequency", "theta"}

AxisBase == [frequency |-> 100, theta |-> 200]

AxisValues(axis, n) == [i \in 1..n |-> AxisBase[axis] + i]

configurations(s) == s

Narrow(s, axis, v) ==
    [k \in DOMAIN s |-> IF s[k].axis = axis
                        THEN [axis |-> axis, vals |-> <<v>>]
                        ELSE s[k]]

AxisOf(s, axis) == CHOOSE k \in DOMAIN s : s[k].axis = axis

iterate(s, axis) ==
    LET vs == s[AxisOf(s, axis)].vals
    IN  [i \in DOMAIN vs |-> Narrow(s, axis, vs[i])]

\* -------------------------------------------------------------- make_model
\* An options argument is "none" (None) or "opts" (a dict of the caller); a
\* legacy keyword argument is "none" or "legacy" (a dict of the caller).
NoModel == [emmodel_options |-> "none", rtsolver_options |-> "none",
            built |-> FALSE]

\* Model.__init__: options if options is not None else dict()
Model(eo, ro) ==
    [emmodel_options |-> IF eo # "none" THEN eo ELSE "empty",
     rtsolver_options |-> IF ro # "none" THEN ro ELSE "empty",
     built |-> TRUE]

\* (a faulty variant: the legacy keywords are taken as the options)
make_model_fallback(eo, ro, ek, rk) ==
    [status |-> "ok",
     model |-> Model(IF ek # "none" THEN ek ELSE eo,
                     IF rk # "none" THEN rk ELSE ro)]

make_model(eo, ro, ek, rk) ==
    IF ek # "none" THEN [status |-> "DeprecationWarning", model |-> NoModel]
    ELSE IF rk # "none" THEN [status |-> "DeprecationWarning", model |-> NoModel]
    ELSE [status |-> "ok", model |-> Model(eo, ro)]

\* ---------------------------------------------------------- make_interface
\* A keyword value is a scalar or a sequence: [seq |-> TRUE, v |-> the
\* elements] or [seq |-> FALSE, v |-> <<the scalar>>].
Scalar(x) == [seq |-> FALSE, v |-> <<x>>]

Sequence(xs) == [seq |-> TRUE, v |-> xs]

\* lib.is_sequence on a keyword value (core/lib.py)
is_sequence_value(k) == k.seq

\* lib.get(x, i) on one value (core/lib.py), i counted from 0: the i-th
\* element of a sequence, a scalar as it is; a sequence too short is indexed
\* out of its range
get_value(k, i) ==
    IF ~is_sequence_value(k) THEN [status |-> "ok", value |-> k]
    ELSE IF i >= Len(k.v) THEN [status |-> "IndexError", value |-> k]
    ELSE [status |-> "ok", value |-> Scalar(k.v[i + 1])]

\* lib.get(kwargs, i) on the dict of keyword arguments
get(kw, i) ==
    IF \E a \in DOMAIN kw : get_value(kw[a], i).status # "ok"
    THEN [status |-> "IndexError", value |-> kw]
    ELSE [status |-> "ok", value |-> [a \in DOMAIN kw |-> get_value(kw[a], i).value]]

\* The interface classes: Flat (interface/flat.py, the default) takes no
\* argument, Rough stands for a class with one required argument.
Flat == [name |-> "Flat", args |-> {}]

Rough == [name |-> "Rough", args |-> {"roughness_rms"}]

NoClass == [name |-> "none", args |-> {}]

\* import_class("interface", name) (core/plugin.py)
import_class(name) == IF name = "flat" THEN Flat ELSE Rough

NoInstance == [id |-> -1, cls |-> "none", kw |-> EmptyMap]

\* Interface.__init__: every required argument must be among the keywords;
\* the instance keeps the keywords it was built with. id is the rank of the
\* constructor call: two instances are never the same object.
NewInstance(klass, kw, id) ==
    IF klass.args \subseteq DOMAIN kw
    THEN [status |-> "ok", inst |-> [id |-> id, cls |-> klass.name, kw |-> kw]]
    ELSE [status |-> "SMRTError", inst |-> NoInstance]

\* (a faulty variant: a pre-built instance is built again from its class)
ResolveRebuilds(ident) ==
    IF ident.kind = "none" THEN [kind |-> "class", cls |-> Flat]
    ELSE IF ident.kind = "str" THEN [kind |-> "class", cls |-> import_class(ident.name)]
    ELSE IF ident.kind = "class" THEN [kind |-> "class", cls |-> ident.cls]
    ELSE IF ident.kind = "instance" /\ ident.hasop
    THEN [kind |-> "class", cls |-> Flat]
    ELSE [kind |-> "error", cls |-> NoClass]

\* the identifier resolved to a class: .kind is "class" (build it),
\* "instance" (return the identifier) or "error"
Resolve(ident) ==
    IF ident.kind = "none" THEN [kind |-> "class", cls |-> Flat]
    ELSE IF ident.kind = "str" THEN [kind |-> "class", cls |-> import_class(ident.name)]
    ELSE IF ident.kind = "class" THEN [kind |-> "class", cls |-> ident.cls]
    ELSE IF ident.kind = "instance" /\ ident.hasop THEN [kind |-> "instance", cls |-> NoClass]
    ELSE [kind |-> "error", cls |-> NoClass]

\* l = [len(k) for k in kwargs.values() if lib.is_sequence(k)]
SequenceLengths(kw) == {Len(kw[a].v) : a \in {b \in DOMAIN kw : is_sequence_value(kw[b])}}

Max(S) == CHOOSE x \in S : \A y \in S : y <= x

\* (a faulty variant: the shortest sequence gives the number of instances)
BroadcastLengthShortest(kw) == CHOOSE x \in SequenceLengths(kw) : \A y \in SequenceLengths(kw) : x <= y

\* max(l)
BroadcastLength(kw) == Max(SequenceLengths(kw))

\* (a faulty variant: the broadcast argument is not looked at)
BroadcastsAlways(b, kw) == DOMAIN kw # {} /\ SequenceLengths(kw) # {}

\* if broadcast and kwargs: ... if l:
Broadcasts(b, kw) == b /\ DOMAIN kw # {} /\ SequenceLengths(kw) # {}

NoValue == [kind |-> "none", inst |-> NoInstance, insts |-> <<>>]

\* [interface_cls(**lib.get(kwargs, i)) for i in range(max(l))], from index
\* i on, built being the instances made so far
RECURSIVE BuildList(_, _, _, _, _)
BuildList(klass, kw, i, n, built) ==
    IF i >= n
    THEN [status |-> "ok", constructed |-> built,
          value |-> [kind |-> "list", inst |-> NoInstance, insts |-> built]]
    ELSE LET g == get(kw, i)
             new == NewInstance(klass, g.value, Len(built) + 1)
         IN  IF g.status # "ok"
             THEN [status |-> g.status, constructed |-> built, value |-> NoValue]
             ELSE IF new.status # "ok"
             THEN [status |-> new.status, constructed |-> built, value |-> NoValue]
             ELSE BuildList(klass, kw, i + 1, n, Append(built, new.inst))

make_interface(ident, b, kw) ==
    LET r == Resolve(ident)
    IN  IF r.kind = "instance"
        THEN [status |-> "ok", constructed |-> <<>>,
              value |-> [kind |-> "one", inst |-> ident.inst, insts |-> <<>>]]
        ELSE IF r.kind = "error"
        THEN [status |-> "SMRTError", constructed |-> <<>>, value |-> NoValue]
        ELSE IF Broadcasts(b, kw)
        THEN BuildList(r.cls, kw, 0, BroadcastLength(kw), <<>>)
        ELSE LET new == NewInstance(r.cls, kw, 1)
             IN  IF new.status # "ok"
                 THEN [status |-> new.status, constructed |-> <<>>, value |-> NoValue]
                 ELSE [status |-> "ok", constructed |-> <<new.inst>>,
                       value |-> [kind |-> "one", inst |-> new.inst, insts |-> <<>>]]

\* ------------------------------------------------- substrate_from_interface
\* the four boundary operations of a substrate
BoundaryOps == {"specular_reflection_matrix", "emissivity_matrix",
                "diffuse_reflection_matrix", "ft_even_diffuse_reflection_matrix"}

\* the raw operations an interface class may offer
RawOps == {"specular_reflection_matrix", "coherent_transmission_matrix",
           "diffuse_reflection_matrix", "ft_even_diffuse_reflection_matrix"}

\* auto_add(emissivity_matrix, 'coherent_transmission_matrix') and the
\* three operations derived from the raw operation of their own name; it is
\* also the raw operation the wrapper calls
dependency(op) ==
    IF op = "emissivity_matrix" THEN "coherent_transmission_matrix" ELSE op

\* auto_add: if not hasattr(cls, new_method_name)
\*                              and hasattr(interface_cls, dependency)
auto_add(c, icls, new_method) ==
    new_method \notin c /\ dependency(new_method) \in icls

\* the synthesized methods among the attributes of the new class
attributes(c, icls) == {op \in BoundaryOps : auto_add(c, icls, op)}

\* type(cls.__name__, (SubstrateBase, interface_cls), attributes): what the
\* new class gives for a name: a synthesized wrapper from its attributes,
\* or what it inherits from interface_cls ("raw"), or nothing ("absent").
\* The decorated class is not among the bases.
decorator(c, icls) ==
    [op \in BoundaryOps |->
        IF op \in attributes(c, icls) THEN "wrapper"
        ELSE IF op \in icls THEN "raw"
        ELSE "absent"]

\* what permittivity gives: None (isNone), a value, or the exception raised
NoEps == [status |-> "ok", isNone |-> TRUE, value |-> 0]

\* a permittivity model that is a function of frequency and temperature
PermittivityModels == {"soil", "ice"}

\* a permittivity model that is a number ("Can also be a numerical value"):
\* "fixed" stands for the number 3
FixedModels == {"fixed"}

Evaluate(pm, frequency, temp) ==
    [status |-> "ok", isNone |-> FALSE,
     value |-> frequency * 1000 + temp + (IF pm = "ice" THEN 500 ELSE 0)]

\* self.permittivity_model(frequency, self.temperature): a function is
\* evaluated, a number is not callable
CallModel(pm, frequency, temp) ==
    IF pm \in FixedModels
    THEN [status |-> "TypeError", isNone |-> FALSE, value |-> 0]
    ELSE Evaluate(pm, frequency, temp)

\* (a faulty variant: the model is called with (temperature, frequency))
permittivity_swapped(pm, temp, frequency) ==
    IF pm = "none" THEN NoEps ELSE CallModel(pm, temp, frequency)

\* SubstrateBase.permittivity
permittivity(pm, temp, frequency) ==
    IF pm = "none" THEN NoEps ELSE CallModel(pm, frequency, temp)

\* one of the four synthesized methods, called as c = [op, frequency,
\* eps_1, args]: the result and the calls of raw operations it made
wrapper(pm, temp, c) ==
    LET eps_2 == permittivity(pm, temp, c.frequency)
    IN  IF eps_2.status # "ok"
        THEN [status |-> eps_2.status, raw_calls |-> <<>>]
        ELSE IF eps_2.isNone
        THEN [status |-> "SMRTError", raw_calls |-> <<>>]
        ELSE [status |-> "ok",
              raw_calls |-> <<[op |-> dependency(c.op), frequency |-> c.frequency,
                               eps_1 |-> c.eps_1, eps_2 |-> eps_2.value,
                               args |-> c.args]>>]

\* ------------------------------------------------------------ descriptors
\* snowpack_dimension / an axis descriptor. kind "none" is None, "tuple" a
\* (name, values) tuple whose values may be None (valsNone).
NoDim == [kind |-> "none", name |-> "", nameIsStr |-> TRUE,
          vals |-> <<>>, valsNone |-> FALSE]

DimTuple(name, vals) == [kind |-> "tuple", name |-> name, nameIsStr |-> TRUE,
                         vals |-> vals, valsNone |-> FALSE]

\* ---------------------------------------------------------------- entities
NoEntity == [cls |-> "none", dims |-> <<>>, coords |-> <<>>, data |-> <<>>,
             channel_map |-> EmptyMap]

\* run_single_simulation: the value of rtsolver.solve for one unit
run_single_simulation(simul) ==
    [cls |-> "P", dims |-> <<>>, coords |-> <<>>, data |-> <<simul>>,
     channel_map |-> EmptyMap]

\* Model.emmodel and Model.emmodel_options are one value for every layer or
\* a list of n values
One == [seq |-> FALSE, n |-> 1]

PerLayer(n) == [seq |-> TRUE, n |-> n]

\* how run_single_simulation ends on the unit simul: "ok" or the exception.
\* assert len(self.emmodel) == snowpack.nlayer; the options of layer i are
\* emmodel_options[i] for the nlayer layers the zip goes through; a solver
\* given as an instance must declare itself _reentrant.
unit_status(simul) ==
    IF emmodel.seq /\ emmodel.n # nlayer[simul.sp] THEN "AssertionError"
    ELSE IF layer_options.seq /\ layer_options.n < nlayer[simul.sp] THEN "IndexError"
    ELSE IF rtsolver = "instance" THEN "SMRTError"
    ELSE "ok"

\* run_single_simulation reaches rtsolver.solve on the unit simul
solves(simul) == unit_status(simul) = "ok"

\* (a faulty variant: the exception of a unit is swallowed)
raises_never(status) == FALSE

\* the exception of function(*args) leaves the runner
raises(status) == status # "ok"

\* (a faulty variant: a failed task counts as finished)
task_state_finished(status) == "finished"

\* the state of a task / future whose unit ended with status
task_state(status) == IF raises(status) THEN "failed" ELSE "finished"

\* ---------------------------------------------------------------- snowpack
\* The snowpack argument: kind "single" (one Snowpack, items = <<it>>),
\* "list" (a plain sequence) or "dict" (keys[i] -> items[i], insertion order).
Single(id) == [kind |-> "single", items |-> <<id>>, keys |-> <<>>]

List(items) == [kind |-> "list", items |-> items, keys |-> <<>>]

Dict(keys, items) == [kind |-> "dict", items |-> items, keys |-> keys]

\* a pandas Series of snowpacks: keys are its labels, textlen the number of
\* characters of each label when the labels are texts, 0 when they are numbers
Series(keys, items, textlen) ==
    [kind |-> "series", items |-> items, keys |-> keys, textlen |-> textlen]

\* a SensitivityStudy: .variable is "density", keys are its .values and
\* items its .snowpacks
Study(values, items) == [kind |-> "study", items |-> items, keys |-> values]

\* snowpack.index of a Series: a pandas Index, no tuple
Index(sp) ==
    [kind |-> "index", name |-> "index", nameIsStr |-> TRUE, vals |-> sp.keys,
     valsNone |-> FALSE, textlen |-> sp.textlen]

\* lib.is_sequence (core/lib.py): a list, a tuple or an array
is_sequence(sp) == sp.kind = "list"

RECURSIVE ConcatAll(_, _)
ConcatAll(seqs, k) ==
    IF k = 0 THEN <<>> ELSE ConcatAll(seqs, k - 1) \o seqs[k]

\* (a faulty variant: the snowpacks are paired last to first)
InnermostReversed(s, sp) ==
    IF is_sequence(sp)
    THEN [i \in DOMAIN sp.items |->
            [sensor |-> s, sp |-> sp.items[Len(sp.items) + 1 - i]]]
    ELSE <<[sensor |-> s, sp |-> sp.items[1]]>>

\* for sp in snowpack: yield (sensor, sp) / yield (sensor, snowpack)
Innermost(s, sp) ==
    IF is_sequence(sp)
    THEN [i \in DOMAIN sp.items |-> [sensor |-> s, sp |-> sp.items[i]]]
    ELSE <<[sensor |-> s, sp |-> sp.items[1]]>>

RECURSIVE prepare_recursive(_, _, _)
prepare_recursive(s, confs, sp) ==
    IF confs # <<>>
    THEN LET subs == iterate(s, confs[1].name)
         IN  ConcatAll([i \in DOMAIN subs |->
                          prepare_recursive(subs[i], Tail(confs), sp)],
                       Len(subs))
    ELSE Innermost(s, sp)

\* (a faulty variant: the broadcast capability of the solver is ignored)
sensor_configurations_all(s, cap) ==
    LET confs == configurations(s)
    IN  [k \in DOMAIN confs |-> DimTuple(confs[k].axis, confs[k].vals)]

\* [(axis, values) for (axis, values) in sensor.configurations()
\*                  if axis not in rt_solver_broadcast_capability]
sensor_configurations(s, cap) ==
    LET confs == configurations(s)
        keep(c) == c.axis \notin cap
        kept == SelectSeq(confs, keep)
    IN  [k \in DOMAIN kept |-> DimTuple(kept[k].axis, kept[k].vals)]

\* the snowpack argument after the SensitivityStudy, dict and Series branches
NormSnowpack(sp) ==
    IF sp.kind \in {"study", "dict", "series"} THEN List(sp.items) ELSE sp

\* the descriptor a collection brings with it
OwnDimension(sp) ==
    IF sp.kind = "study" THEN DimTuple("density", sp.keys)
    ELSE IF sp.kind = "dict" THEN DimTuple("snowpack", sp.keys)
    ELSE Index(sp)

\* (a faulty variant: a snowpack_dimension of the caller is kept)
NormDimensionOfCaller(sp, dim) ==
    IF dim.kind # "none" /\ ~dim.valsNone THEN dim
    ELSE IF sp.kind \in {"study", "dict", "series"} THEN OwnDimension(sp)
    ELSE [DimTuple("snowpack", PyRange(Len(sp.items))) EXCEPT
             !.name = IF dim.kind = "none" THEN "snowpack" ELSE dim.name]

\* snowpack_dimension after the SensitivityStudy, dict, Series and sequence
\* branches
NormDimension(sp, dim) ==
    LET d1 == IF sp.kind \in {"study", "dict", "series"} THEN OwnDimension(sp)
              ELSE dim
        s1 == NormSnowpack(sp)
        d2 == IF is_sequence(s1) /\ d1.kind = "none"
              THEN [DimTuple("snowpack", <<>>) EXCEPT !.valsNone = TRUE]
              ELSE d1
    IN  IF is_sequence(s1) /\ d2.valsNone
        THEN [d2 EXCEPT !.vals = PyRange(Len(s1.items)), !.valsNone = FALSE]
        ELSE d2

\* (a faulty variant: only too few values are refused)
LengthMismatchTooFew(sp, d) == Len(sp.items) > Len(d.vals)

\* len(snowpack_dimension[1]): of a tuple the number of values, of an Index
\* the number of characters of its second label
second_len(d) == IF d.kind = "index" THEN d.textlen ELSE Len(d.vals)

\* len(snowpack) != len(snowpack_dimension[1])
LengthMismatch(sp, d) == Len(sp.items) # second_len(d)

NoPrep(status) == [status |-> status, simulations |-> <<>>, dimensions |-> <<>>]

prepare_simulations(s, sp, dim) ==
    LET s1 == NormSnowpack(sp)
        d == NormDimension(sp, dim)
        confs == sensor_configurations(s, capability)
    IN  IF d.kind = "index" /\ Len(d.vals) < 2 THEN NoPrep("IndexError")
        ELSE IF d.kind = "index" /\ d.textlen = 0 THEN NoPrep("TypeError")
        ELSE IF d.kind # "none" /\ LengthMismatch(s1, d)
        THEN NoPrep("SMRTError")
        ELSE IF d.kind = "tuple" /\ ~d.nameIsStr THEN NoPrep("SMRTError")
        ELSE [status |-> "ok",
              simulations |-> prepare_recursive(s, confs, s1),
              dimensions |-> IF d.kind # "none" THEN Append(confs, d)
                             ELSE confs]

\* ----------------------------------------------------------- concat_results
RECURSIVE ConcatData(_, _)
ConcatData(list, k) ==
    IF k = 0 THEN <<>> ELSE ConcatData(list, k - 1) \o list[k].data

\* xr.concat([result.data for result in result_list], index): the arrays are
\* stacked along a new outermost dimension labelled by index; xarray raises a
\* ValueError when the index has not one label per array.
xr_concat(list, index) ==
    IF Len(list) # Len(index.vals)
    THEN [status |-> "ValueError", dims |-> <<>>, coords |-> <<>>, data |-> <<>>]
    ELSE [status |-> "ok",
          dims |-> <<index.name>> \o list[1].dims,
          coords |-> <<index.vals>> \o list[1].coords,
          data |-> ConcatData(list, Len(list))]

\* dict(**r.channel_map[ch], dim_name=dv): the keyword is the literal
\* text dim_name, whatever the name of the new dimension is
TagChannel(entry, dim_name, dv) == ("dim_name" :> dv) @@ entry

\* {ch: dict(...) for r, dv in zip(result_list, dim_value) for ch in r.channel_map}
\* (a later result overwrites the channels of an earlier one)
RECURSIVE MergeChannelMaps(_, _, _, _)
MergeChannelMaps(list, dim_name, dim_value, k) ==
    IF k = 0 THEN EmptyMap
    ELSE LET cm == list[k].channel_map
         IN  [ch \in DOMAIN cm |-> TagChannel(cm[ch], dim_name, dim_value[k])]
             @@ MergeChannelMaps(list, dim_name, dim_value, k - 1)

Raised(status) == [status |-> status, result |-> NoEntity]

\* (a faulty variant: any Result subclass passes, as with isinstance(result, Result))
SameTypeIsInstance(list) == \A i \in DOMAIN list : list[i].cls \in {"P", "A"}

\* all([type(result) == ResultClass for result in result_list])
SameType(list) == \A i \in DOMAIN list : list[i].cls = list[1].cls

concat_results(list, c) ==
    IF c.kind \notin {"tuple", "index"} THEN Raised("SMRTError")
    ELSE IF list = <<>> THEN Raised("IndexError")
    ELSE IF ~SameType(list) THEN Raised("SMRTError")
    ELSE IF (\E i \in DOMAIN list : list[i].channel_map # list[1].channel_map)
            /\ c.kind # "tuple"
    THEN Raised("AssertionError")
    ELSE LET channel_map ==
                 IF \E i \in DOMAIN list : list[i].channel_map # list[1].channel_map
                 THEN MergeChannelMaps(list, c.name, c.vals,
                                       Min(Len(list), Len(c.vals)))
                 ELSE list[1].channel_map
             x == xr_concat(list, c)
         IN  IF x.status # "ok" THEN Raised(x.status)
             ELSE [status |-> "ok",
                   result |-> [cls |-> list[1].cls, dims |-> x.dims,
                               coords |-> x.coords, data |-> x.data,
                               channel_map |-> channel_map]]

\* ------------------------------------------------------- the fold of run
\* n = len(dimension[1]) if isinstance(dimension, tuple) else len(dimension)
DimLen(d) == Len(d.vals)

\* (a faulty variant: the groups are strided, results[g::ngroups], not consecutive)
FoldOneStrided(res, d) ==
    LET n == DimLen(d)
        ngroups == IF n = 0 THEN 0 ELSE (Len(res) + n - 1) \div n
        members(g) == {i \in DOMAIN res : (i - 1) % ngroups = g - 1}
        group(g) == [m \in 1..Cardinality(members(g)) |-> res[g + (m - 1) * ngroups]]
        folded == [g \in 1..ngroups |-> concat_results(group(g), d)]
        bad == {g \in 1..ngroups : folded[g].status # "ok"}
    IN  IF n = 0 THEN [status |-> "ValueError", results |-> <<>>]
        ELSE IF bad # {}
        THEN [status |-> folded[CHOOSE g \in bad : \A h \in bad : g <= h].status,
              results |-> <<>>]
        ELSE [status |-> "ok",
              results |-> [g \in 1..ngroups |-> folded[g].result]]

\* [concat_results(results[i: i + n], dimension)
\*                                  for i in range(0, len(results), n)]
FoldOne(res, d) ==
    LET n == DimLen(d)
        ngroups == IF n = 0 THEN 0 ELSE (Len(res) + n - 1) \div n
        group(g) == SubSeq(res, (g - 1) * n + 1, Min(g * n, Len(res)))
        folded == [g \in 1..ngroups |-> concat_results(group(g), d)]
        bad == {g \in 1..ngroups : folded[g].status # "ok"}
    IN  IF n = 0 THEN [status |-> "ValueError", results |-> <<>>]
        ELSE IF bad # {}
        THEN [status |-> folded[CHOOSE g \in bad : \A h \in bad : g <= h].status,
              results |-> <<>>]
        ELSE [status |-> "ok",
              results |-> [g \in 1..ngroups |-> folded[g].result]]

\* (a faulty variant: for dimension in dimensions, the outermost axis folded first)
RECURSIVE FoldOutermostFirst(_, _, _)
FoldOutermostFirst(res, dims, k) ==
    IF k = 0 THEN [status |-> "ok", results |-> res]
    ELSE LET one == FoldOne(res, dims[Len(dims) - k + 1])
         IN  IF one.status # "ok" THEN one
             ELSE FoldOutermostFirst(one.results, dims, k - 1)

\* for dimension in reversed(dimensions): ...   (k dimensions are left)
RECURSIVE Fold(_, _, _)
Fold(res, dims, k) ==
    IF k = 0 THEN [status |-> "ok", results |-> res]
    ELSE LET one == FoldOne(res, dims[k])
         IN  IF one.status # "ok" THEN one
             ELSE Fold(one.results, dims, k - 1)

\* len is no exact multiple of n
NotMultiple(len, n) == IF n = 0 THEN len # 0 ELSE len % n # 0

\* the lists the fold goes through are not all multiples of the axis length
RECURSIVE Uneven(_, _, _)
Uneven(res, dims, k) ==
    IF k = 0 THEN FALSE
    ELSE \/ NotMultiple(Len(res), DimLen(dims[k]))
         \/ LET one == FoldOne(res, dims[k])
            IN  one.status = "ok" /\ Uneven(one.results, dims, k - 1)

\* reshape the results ...; assert len(results) == 1; return results[0]
FoldAll(res, dims) ==
    LET f == Fold(res, dims, Len(dims))
    IN  IF f.status # "ok" THEN Raised(f.status)
        ELSE IF Len(f.results) # 1 THEN Raised("AssertionError")
        ELSE [status |-> "ok", result |-> f.results[1]]

\* ------------------------------------------------------------------ inputs
\* the worker processes of a parallel runner
Workers == {"w1", "w2"}

AxisSeqs ==
    {<<>>} \cup {<<a>> : a \in AxisNames}
           \cup {<<a, b>> : <<a, b>> \in {p \in AxisNames \X AxisNames : p[1] # p[2]}}

Sensors ==
    {[k \in DOMAIN ax |-> [axis |-> ax[k], vals |-> AxisValues(ax[k], len[k])]] :
        ax \in AxisSeqs,
        len \in [1..Cardinality(AxisNames) -> (MaxAxisLen - 1)..MaxAxisLen]}

Ids(n) == [i \in 1..n |-> i]

Keys(n) == [i \in 1..n |-> 500 + i]

Times(n) == [i \in 1..n |-> 10 * i]

Snowpacks ==
    {Single(1)} \cup {List(Ids(n)) : n \in 0..MaxSnow}
                \cup {Dict(Keys(MaxSnow), Ids(MaxSnow))}

\* the values of snowpack_dimension tried with a snowpack argument: None,
\* (name, None), (name, values) of every length, and a name that is no text;
\* a single Snowpack is run without snowpack_dimension
SnowpackDimensions(sp) ==
    IF sp.kind = "single" THEN {NoDim}
    ELSE {NoDim, DimTuple("time", Times(MaxSnow + 1)),
          [DimTuple("", Times(Len(sp.items))) EXCEPT !.nameIsStr = FALSE]}
         \cup IF sp.kind = "list"
              THEN {[DimTuple("time", <<>>) EXCEPT !.valsNone = TRUE]}
                   \cup {DimTuple("time", Times(m)) : m \in 0..MaxSnow}
              ELSE {}

RunnerArgs ==
    {[runner |-> "none", chunk |-> 1, parallel |-> p, progress |-> b] :
        p \in BOOLEAN, b \in BOOLEAN}
    \cup {[runner |-> "dask", chunk |-> c, parallel |-> b, progress |-> b] :
            c \in 1..MaxChunk, b \in BOOLEAN}
    \cup {[runner |-> "custom", chunk |-> 1, parallel |-> b, progress |-> b] :
            b \in BOOLEAN}

NoConcat == [status |-> "none", result |-> NoEntity]

RunIdle ==
    /\ pc = "start" /\ simulations = <<>> /\ dimensions = <<>>
    /\ strategy = "none" /\ slots = <<>> /\ results = <<>>
    /\ executed = <<>> /\ solver_calls = {}
    /\ outcome = "none" /\ entity = NoEntity /\ uneven = FALSE
    /\ overtaken = FALSE

\* every snowpack has two layers
TwoLayers == [i \in 1..(MaxSnow + 1) |-> 2]

\* a Model of one EM model, one dict of options and a solver class
PlainModel ==
    /\ emmodel = One /\ layer_options = One /\ rtsolver = "class"
    /\ nlayer = TwoLayers

\* the arguments of a call of Model.run
RunInputs ==
    /\ sensor \in Sensors
    /\ capability \in SUBSET AxisNames
    /\ snowpack \in Snowpacks
    /\ snowpack_dimension \in SnowpackDimensions(snowpack)
    /\ \E a \in RunnerArgs :
          /\ runner = a.runner /\ chunk = a.chunk
          /\ parallel_computation = a.parallel /\ progressbar = a.progress

\* no call of Model.run
NoRun ==
    /\ sensor = <<>> /\ capability = {} /\ snowpack = Single(1)
    /\ snowpack_dimension = NoDim /\ runner = "none" /\ chunk = 1
    /\ parallel_computation = FALSE /\ progressbar = FALSE
    /\ atmosphere = "none" /\ PlainModel
    /\ simulations = <<>> /\ dimensions = <<>>
    /\ strategy = "none" /\ slots = <<>> /\ results = <<>>
    /\ executed = <<>> /\ solver_calls = {}
    /\ outcome = "none" /\ entity = NoEntity /\ uneven = FALSE
    /\ overtaken = FALSE

ConcatIdle == result_list = <<>> /\ coord = NoDim /\ concat_out = NoConcat

NoIdent == [kind |-> "none", name |-> "", cls |-> NoClass, hasop |-> FALSE,
            inst |-> NoInstance]

NoIface == [status |-> "none", value |-> NoValue]

IfaceIdle ==
    /\ inst_class_or_modulename = NoIdent /\ broadcast = TRUE
    /\ kwargs = EmptyMap /\ constructed = <<>> /\ iface_out = NoIface

NoCall == [op |-> "none", frequency |-> 0, eps_1 |-> 0, args |-> <<>>]

NoNewcls == [op \in BoundaryOps |-> "absent"]

SubstrateIdle ==
    /\ interface_cls = {} /\ cls = {} /\ newcls = NoNewcls
    /\ temperature = 0 /\ permittivity_model = "none"
    /\ call = NoCall /\ raw_calls = <<>> /\ sub_out = "none"

NoSelection ==
    [status |-> "none", isFloat |-> FALSE, frame |-> FALSE, dims |-> <<>>,
     coords |-> <<>>, data |-> <<>>]

NoStored == [mode |-> "none", dims |-> <<>>, coords |-> <<>>, data |-> <<>>]

NoOpened == [status |-> "none", data |-> NoStored, result |-> NoEntity]

OpenIdle == stored = NoStored /\ opened = NoOpened

NoAccess ==
    /\ result = NoEntity /\ accessor = "none" /\ channel = "none"
    /\ sel_kwargs = EmptyMap /\ sel_out = NoSelection

SelIdle == NoAccess /\ OpenIdle

\* a Model made by make_model(emmodel, rtsolver), no options given
MadeModel ==
    /\ emmodel_options = "none" /\ rtsolver_options = "none"
    /\ emmodel_kwargs = "none" /\ rtsolver_kwargs = "none"
    /\ model = Model("none", "none")

\* a Model made with the current keywords, run without atmosphere
Init ==
    /\ RunInputs
    /\ PlainModel
    /\ atmosphere = "none"
    /\ RunIdle
    /\ ConcatIdle
    /\ MadeModel
    /\ IfaceIdle
    /\ SubstrateIdle
    /\ SelIdle

\* ----------------------------------------------------------------- actions
\* (a faulty variant: the two flags are never refused)
IncompatibleNever(r, par, prog) == FALSE

\* if runner is None: if parallel_computation: if progressbar: raise
Incompatible(r, par, prog) == r = "none" /\ par /\ prog

Fail(status) ==
    /\ pc' = "done" /\ outcome' = status
    /\ UNCHANGED <<simulations, dimensions, strategy, slots, results, entity,
                   uneven, overtaken>>
    /\ UNCHANGED unit_log

\* Model.run up to the call of the runner
RunPrepare ==
    /\ pc = "start"
    /\ LET prep == prepare_simulations(sensor, snowpack, snowpack_dimension)
       IN  IF atmosphere # "none" THEN Fail("DeprecationWarning")
           ELSE IF prep.status # "ok" THEN Fail(prep.status)
           ELSE IF Incompatible(runner, parallel_computation, progressbar)
           THEN Fail("SMRTError")
           ELSE /\ pc' = "run"
                /\ simulations' = prep.simulations
                /\ dimensions' = prep.dimensions
                /\ strategy' = IF runner # "none" THEN runner
                               ELSE IF parallel_computation THEN "joblib"
                               ELSE "sequential"
                /\ UNCHANGED <<slots, results, outcome, entity, uneven, overtaken>>
                /\ UNCHANGED unit_log
    /\ UNCHANGED inputs /\ UNCHANGED outside_run

Running == {p \in DOMAIN slots : slots[p].st = "running"}

Pending == {p \in DOMAIN slots : slots[p].st = "pending"}

AllFinished == \A p \in DOMAIN slots : slots[p].st = "finished"

Task(unit, st) == [unit |-> unit, st |-> st, res |-> NoEntity]

UnitFrame ==
    /\ UNCHANGED <<simulations, dimensions, strategy, entity, uneven>>
    /\ UNCHANGED inputs /\ UNCHANGED outside_run

RunnerFrame == UNCHANGED outcome /\ UnitFrame

\* the units among us that reach the solver
Solved(us) == {us[i] : i \in {j \in DOMAIN us : solves(simulations[us[j]])}}

\* SequentialRunner: [function(*args) for args in argument_list], one unit;
\* an exception of the function leaves the comprehension and Model.run
SequentialStep ==
    /\ pc = "run" /\ strategy = "sequential"
    /\ Len(results) < Len(simulations)
    /\ LET k == Len(results) + 1
           st == unit_status(simulations[k])
       IN  /\ executed' = Append(executed, k)
           /\ solver_calls' = solver_calls \cup Solved(<<k>>)
           /\ IF raises(st)
              THEN pc' = "done" /\ outcome' = st /\ UNCHANGED results
              ELSE /\ results' = Append(results, run_single_simulation(simulations[k]))
                   /\ UNCHANGED <<pc, outcome>>
    /\ UNCHANGED <<slots, overtaken>> /\ UnitFrame

SequentialReturn ==
    /\ pc = "run" /\ strategy = "sequential"
    /\ Len(results) = Len(simulations)
    /\ pc' = "gathered"
    /\ UNCHANGED <<slots, results, overtaken>> /\ UNCHANGED unit_log
    /\ RunnerFrame

\* joblib's Parallel takes the next delayed call when a worker is free
JoblibDispatch ==
    /\ pc = "run" /\ strategy = "joblib"
    /\ Len(slots) < Len(simulations)
    /\ Cardinality(Running) < Cardinality(Workers)
    /\ slots' = Append(slots, Task(Len(slots) + 1, "running"))
    /\ executed' = Append(executed, Len(slots) + 1)
    /\ UNCHANGED <<pc, results, overtaken, solver_calls>> /\ RunnerFrame

\* a worker finishes its unit: the result is kept with the task / future
WorkerComplete ==
    /\ pc = "run" /\ strategy \in {"joblib", "dask"}
    /\ \E p \in Running :
          LET st == unit_status(simulations[slots[p].unit])
          IN  /\ slots' = [slots EXCEPT
                    ![p].st = task_state(st),
                    ![p].res = IF st = "ok"
                               THEN run_single_simulation(simulations[slots[p].unit])
                               ELSE NoEntity]
              /\ solver_calls' = solver_calls \cup Solved(<<slots[p].unit>>)
              /\ overtaken' = (overtaken \/ \E q \in Running : q < p)
    /\ UNCHANGED <<pc, results, executed>> /\ RunnerFrame

\* Parallel.__call__ and client.gather raise the exception of a failed task
ParallelRaise ==
    /\ pc = "run" /\ strategy \in {"joblib", "dask"}
    /\ \E p \in DOMAIN slots :
          /\ slots[p].st = "failed"
          /\ outcome' = unit_status(simulations[slots[p].unit])
    /\ pc' = "done"
    /\ UNCHANGED <<slots, results, overtaken>> /\ UNCHANGED unit_log
    /\ UnitFrame

\* (a faulty variant: the results are handed back last task first)
GatheredReversed(tasks) == [p \in DOMAIN tasks |-> tasks[Len(tasks) + 1 - p].res]

\* the results of the tasks, in the order of the tasks
Gathered(tasks) == [p \in DOMAIN tasks |-> tasks[p].res]

JoblibReturn ==
    /\ pc = "run" /\ strategy = "joblib"
    /\ Len(slots) = Len(simulations) /\ AllFinished
    /\ results' = Gathered(slots)
    /\ pc' = "gathered"
    /\ UNCHANGED <<slots, overtaken>> /\ UNCHANGED unit_log /\ RunnerFrame

\* (a faulty variant: futures = future + futures, the newest chunk first)
DaskChunkPrepend(futures, future) == future \o futures

\* future = self.client.map(f, list(args)); futures += future
DaskChunk(futures, future) == futures \o future

\* for i in range(0, len(argument_list), n): args = argument_list[i: i + n] ...
\* (i is 0-based; len units in all)
RECURSIVE DaskFutures(_, _, _, _)
DaskFutures(futures, i, n, len) ==
    IF i >= len THEN futures
    ELSE DaskFutures(
            DaskChunk(futures,
                      [k \in 1..(Min(i + n, len) - i) |-> Task(i + k, "pending")]),
            i + n, n, len)

\* DaskParallelRunner.__call__ up to the gather: every chunk is submitted
DaskSubmit ==
    /\ pc = "run" /\ strategy = "dask"
    /\ slots = <<>> /\ simulations # <<>>
    /\ slots' = DaskFutures(<<>>, 0, chunk, Len(simulations))
    /\ UNCHANGED <<pc, results, overtaken>> /\ UNCHANGED unit_log
    /\ RunnerFrame

\* a free worker of the cluster starts the oldest waiting future
DaskStart ==
    /\ pc = "run" /\ strategy = "dask"
    /\ Pending # {} /\ Cardinality(Running) < Cardinality(Workers)
    /\ LET p == CHOOSE q \in Pending : \A r \in Pending : q <= r
       IN  /\ slots' = [slots EXCEPT ![p].st = "running"]
           /\ executed' = Append(executed, slots[p].unit)
    /\ UNCHANGED <<pc, results, overtaken, solver_calls>> /\ RunnerFrame

\* results = self.client.gather(futures, direct=False)
DaskGather ==
    /\ pc = "run" /\ strategy = "dask"
    /\ Len(slots) = Len(simulations) /\ AllFinished
    /\ results' = Gathered(slots)
    /\ pc' = "gathered"
    /\ UNCHANGED <<slots, overtaken>> /\ UNCHANGED unit_log /\ RunnerFrame

\* a runner given by the caller: any callable, it may return a list of any
\* length (here the results of the units, cut short or with one repeated)
CustomRunner ==
    /\ pc = "run" /\ strategy = "custom"
    /\ \E m \in 0..(Len(simulations) + 1) :
          /\ m > 0 => simulations # <<>>
          /\ LET us == [i \in 1..m |-> ((i - 1) % Len(simulations)) + 1]
                 bad == {i \in 1..m : raises(unit_status(simulations[us[i]]))}
                 first == CHOOSE i \in bad : \A j \in bad : i <= j
             IN  IF bad = {}
                 THEN /\ results' = [i \in 1..m |-> run_single_simulation(simulations[us[i]])]
                      /\ executed' = executed \o us
                      /\ solver_calls' = solver_calls \cup Solved(us)
                      /\ pc' = "gathered" /\ UNCHANGED outcome
                 ELSE /\ executed' = executed \o SubSeq(us, 1, first)
                      /\ solver_calls' = solver_calls \cup Solved(SubSeq(us, 1, first))
                      /\ pc' = "done"
                      /\ outcome' = unit_status(simulations[us[first]])
                      /\ UNCHANGED results
    /\ UNCHANGED <<slots, overtaken>> /\ UnitFrame

\* Model.run after the runner returned: the fold, the assert, the return
RunFold ==
    /\ pc = "gathered"
    /\ LET f == FoldAll(results, dimensions)
       IN  /\ outcome' = f.status
           /\ entity' = f.result
    /\ uneven' = Uneven(results, dimensions, Len(dimensions))
    /\ pc' = "done"
    /\ UNCHANGED <<simulations, dimensions, strategy, slots, results, overtaken>>
    /\ UNCHANGED unit_log /\ UNCHANGED inputs /\ UNCHANGED outside_run

Next ==
    \/ RunPrepare
    \/ SequentialStep
    \/ SequentialReturn
    \/ JoblibDispatch
    \/ WorkerComplete
    \/ JoblibReturn
    \/ DaskSubmit
    \/ DaskStart
    \/ DaskGather
    \/ CustomRunner
    \/ RunFold

Spec == Init /\ [][Next]_vars

\* ====================================================== claims about run
StandardRunners == {"sequential", "joblib", "dask"}

\* prepare_simulations succeeded and Model.run chose its runner
Prepared == strategy # "none"

\* the runner has returned
Returned == pc \in {"gathered", "done"} /\ Prepared

\* ---- what the claims expect, stated from the inputs of the call
\* the sensor axes the solver does not broadcast, in declaration order
ExpAxes ==
    LET nonnative(c) == c.axis \notin capability
    IN  SelectSeq(sensor, nonnative)

\* the snowpacks of the call, in the order of the collection
ExpSnowpacks == snowpack.items

HasSnowpackAxis == snowpack.kind # "single"

\* the lengths of the expected axes, the snowpack axis last
ExpShape ==
    [k \in DOMAIN ExpAxes |-> Len(ExpAxes[k].vals)]
    \o (IF HasSnowpackAxis THEN <<Len(ExpSnowpacks)>> ELSE <<>>)

RECURSIVE Product(_, _)
Product(shape, k) ==
    IF k > Len(shape) THEN 1 ELSE shape[k] * Product(shape, k + 1)

\* row-major position (1-based) of an index tuple, and its inverse
RECURSIVE Offset(_, _, _)
Offset(shape, idx, k) ==
    IF k > Len(shape) THEN 0
    ELSE (idx[k] - 1) * Product(shape, k + 1) + Offset(shape, idx, k + 1)

Position(shape, idx) == 1 + Offset(shape, idx, 1)

IndexAt(shape, j) ==
    [k \in DOMAIN shape |-> (((j - 1) \div Product(shape, k + 1)) % shape[k]) + 1]

IndexTuples(shape) ==
    {idx \in [DOMAIN shape -> 1..MaxAxisLen + MaxSnow + 1] :
        \A k \in DOMAIN shape : idx[k] <= shape[k]}

\* the sensor narrowed to the values idx picks on the expected axes
RECURSIVE NarrowAll(_, _, _)
NarrowAll(s, idx, k) ==
    IF k = 0 THEN s
    ELSE NarrowAll(Narrow(s, ExpAxes[k].axis, ExpAxes[k].vals[idx[k]]), idx, k - 1)

\* the unit of an index tuple: sensor variant (v1..vk) and snowpack s
ExpUnit(idx) ==
    [sensor |-> NarrowAll(sensor, idx, Len(ExpAxes)),
     sp |-> IF HasSnowpackAxis THEN ExpSnowpacks[idx[Len(idx)]]
            ELSE ExpSnowpacks[1]]

\* C1: each of the three runners returns exactly one result per argument
\* tuple, the i-th result being the function applied to the i-th argument
\* tuple, whatever the order in which the workers finished.
C1_RunnerKeepsOrder ==
    (Returned /\ strategy \in StandardRunners) =>
        /\ Len(results) = Len(simulations)
        /\ \A i \in DOMAIN results :
              results[i] = run_single_simulation(simulations[i])

\* a dask run of several chunks in which a later unit finished first
C1_Witness ==
    /\ Returned /\ strategy = "dask" /\ overtaken
    /\ chunk < Len(simulations) /\ Len(results) = Len(simulations)

\* C2: the units are listed with the first non-native axis outermost and the
\* snowpack index fastest: the unit at row-major position j of the index
\* tuples (v1..vk, s) is (sensor narrowed to v1..vk, snowpack s); there are
\* as many units as index tuples and no pair comes twice.
C2_UnitOrder ==
    Prepared =>
        /\ Len(simulations) = Product(ExpShape, 1)
        /\ \A idx \in IndexTuples(ExpShape) :
              simulations[Position(ExpShape, idx)] = ExpUnit(idx)
        /\ \A i, j \in DOMAIN simulations :
              simulations[i] = simulations[j] => i = j

\* two decomposed axes of different lengths and several snowpacks
C2_Witness ==
    /\ Prepared /\ Len(ExpAxes) = 2 /\ Len(ExpSnowpacks) > 1
    /\ ExpShape[1] # ExpShape[2] /\ Len(simulations) >= 4

\* C3: the axis descriptors are the sensor axes outside the solver's
\* broadcast capability, in declaration order, then the snowpack axis when
\* there is one; broadcast axes are not listed, and a single snowpack
\* given without snowpack_dimension adds no axis.
C3_AxisDescriptors ==
    Prepared =>
        /\ Len(dimensions) = Len(ExpAxes) + (IF HasSnowpackAxis THEN 1 ELSE 0)
        /\ \A k \in DOMAIN ExpAxes :
              /\ dimensions[k].name = ExpAxes[k].axis
              /\ dimensions[k].vals = ExpAxes[k].vals
        /\ \A k \in DOMAIN dimensions : dimensions[k].name \notin capability
        /\ HasSnowpackAxis =>
              LET d == dimensions[Len(dimensions)]
              IN  /\ d.name \notin AxisNames
                  /\ Len(d.vals) = Len(ExpSnowpacks)

\* a sensor with a broadcast axis declared before a decomposed one
C3_Witness ==
    /\ Prepared /\ Len(sensor) = 2 /\ sensor[1].axis \in capability
    /\ sensor[2].axis \notin capability /\ HasSnowpackAxis

\* a single snowpack: no snowpack axis
C3_WitnessSingle ==
    Prepared /\ ~HasSnowpackAxis /\ Len(dimensions) = 1

\* ---- reading a folded entity
Shape(ent) == [k \in DOMAIN ent.coords |-> Len(ent.coords[k])]

IndexIn(seq, x) == CHOOSE i \in DOMAIN seq : seq[i] = x

\* the cell of ent selected by one label per named dimension
CellAtLabels(ent, names, labels) ==
    LET idx == [m \in DOMAIN ent.dims |->
                   IndexIn(ent.coords[m], labels[IndexIn(names, ent.dims[m])])]
    IN  ent.data[Position(Shape(ent), idx)]

DimNames(dims) == [k \in DOMAIN dims |-> dims[k].name]

DimValues(dims) == [k \in DOMAIN dims |-> dims[k].vals]

DimShape(dims) == [k \in DOMAIN dims |-> Len(dims[k].vals)]

LabelsAt(dims, idx) == [k \in DOMAIN dims |-> dims[k].vals[idx[k]]]

\* C4: the fold ends with one entity whose dimensions are the axis
\* descriptors, outermost first, and whose cell at the labels (v1..vk, s) is
\* the result of the unit built from sensor variant (v1..vk) and snowpack s
\* (a run of at least one unit by one of the three runners).
C4_FoldMatchesFlattening ==
    (pc = "done" /\ strategy \in StandardRunners /\ simulations # <<>>) =>
        /\ outcome = "ok"
        /\ entity.dims = DimNames(dimensions)
        /\ entity.coords = DimValues(dimensions)
        /\ Len(entity.data) = Product(ExpShape, 1)
        /\ \A idx \in IndexTuples(ExpShape) :
              CellAtLabels(entity, DimNames(dimensions), LabelsAt(dimensions, idx))
                  = run_single_simulation(ExpUnit(idx)).data[1]

\* three axes, the two sensor axes of different lengths
C4_Witness ==
    /\ pc = "done" /\ outcome = "ok" /\ strategy \in StandardRunners
    /\ Len(entity.dims) = 3 /\ Len(entity.coords[1]) # Len(entity.coords[2])
    /\ Len(entity.coords[3]) > 1

\* ---- running a call in one go, unit after unit
SeqResults(sims) == [i \in DOMAIN sims |-> run_single_simulation(sims[i])]

RunEntity(s, sp, dim) ==
    LET prep == prepare_simulations(s, sp, dim)
    IN  IF prep.status # "ok" THEN Raised(prep.status)
        ELSE FoldAll(SeqResults(prep.simulations), prep.dimensions)

\* xarray's concatenation of two arrays along a dimension both have: the
\* labels and the cells of the second follow those of the first
ConcatAlong(e1, e2, name) ==
    LET ax == IndexIn(e1.dims, name)
        len1 == Len(e1.coords[ax])
        coords == [e1.coords EXCEPT ![ax] = e1.coords[ax] \o e2.coords[ax]]
        shape == [k \in DOMAIN coords |-> Len(coords[k])]
        cell(j) ==
            LET idx == IndexAt(shape, j)
            IN  IF idx[ax] <= len1 THEN e1.data[Position(Shape(e1), idx)]
                ELSE e2.data[Position(Shape(e2), [idx EXCEPT ![ax] = @ - len1])]
    IN  [cls |-> e1.cls, dims |-> e1.dims, coords |-> coords,
         data |-> [j \in 1..Product(shape, 1) |-> cell(j)],
         channel_map |-> e1.channel_map]

\* the snowpacks lo..hi of the call as a batch of their own, with the part
\* of the caller's labels that belongs to them
Batch(lo, hi) ==
    IF snowpack.kind = "dict"
    THEN Dict(SubSeq(snowpack.keys, lo, hi), SubSeq(snowpack.items, lo, hi))
    ELSE List(SubSeq(snowpack.items, lo, hi))

BatchDimension(lo, hi) ==
    IF snowpack_dimension.kind = "tuple" /\ ~snowpack_dimension.valsNone
    THEN [snowpack_dimension EXCEPT !.vals = SubSeq(@, lo, hi)]
    ELSE snowpack_dimension

\* the call run as two batches, snowpacks 1..k and k+1..n, concatenated
\* along the snowpack axis
Batched(k) ==
    LET n == Len(snowpack.items)
        b1 == RunEntity(sensor, Batch(1, k), BatchDimension(1, k))
        b2 == RunEntity(sensor, Batch(k + 1, n), BatchDimension(k + 1, n))
    IN  ConcatAlong(b1.result, b2.result, dimensions[Len(dimensions)].name)

Splits == 1..(Len(snowpack.items) - 1)

\* the labels of the snowpack axis come from the caller (explicit values
\* or the keys of a dict), not from the default 0..n-1
ExplicitLabels ==
    \/ snowpack.kind = "dict"
    \/ snowpack_dimension.kind = "tuple" /\ ~snowpack_dimension.valsNone

RanToEnd == pc = "done" /\ outcome = "ok" /\ strategy \in StandardRunners

\* C5 as stated: the folded entity is the same under the three runners, and
\* the same when the snowpacks are run as two batches concatenated along
\* the snowpack axis.
C5_AsClaimed ==
    (RanToEnd /\ HasSnowpackAxis) =>
        /\ entity = RunEntity(sensor, snowpack, snowpack_dimension).result
        /\ \A k \in Splits : Batched(k) = entity

\* C5 amended: the folded entity is the same under the three runners; run
\* as two batches it has the same dimensions, shape and cells, and the
\* same labels when the snowpack labels are given by the caller (with the
\* default labels every batch is labelled from 0 again).
C5_RunnersAndBatchesAgree ==
    RanToEnd =>
        /\ entity = RunEntity(sensor, snowpack, snowpack_dimension).result
        /\ HasSnowpackAxis =>
              \A k \in Splits :
                  LET b == Batched(k)
                  IN  /\ b.dims = entity.dims
                      /\ Shape(b) = Shape(entity)
                      /\ b.data = entity.data
                      /\ b.cls = entity.cls
                      /\ ExplicitLabels => b = entity
                      /\ ~ExplicitLabels =>
                            b.coords[Len(b.coords)]
                                = PyRange(k) \o PyRange(Len(snowpack.items) - k)

\* a parallel run, units finished out of order, batches of explicit labels
C5_Witness ==
    /\ RanToEnd /\ strategy \in {"joblib", "dask"} /\ overtaken
    /\ ExplicitLabels /\ Splits # {} /\ Len(entity.dims) > 1

\* C6: re-flattening the folded entity along the axis descriptors, the
\* outermost axis first, gives back the per-unit results in their order.
Reflatten(ent, dims, j) ==
    [cls |-> ent.cls, dims |-> <<>>, coords |-> <<>>,
     data |-> <<CellAtLabels(ent, DimNames(dims),
                             LabelsAt(dims, IndexAt(DimShape(dims), j)))>>,
     channel_map |-> ent.channel_map]

C6_FoldRoundTrip ==
    (pc = "done" /\ outcome = "ok") =>
        /\ Len(results) = Product(DimShape(dimensions), 1)
        /\ \A j \in DOMAIN results : Reflatten(entity, dimensions, j) = results[j]

C6_Witness ==
    /\ pc = "done" /\ outcome = "ok" /\ Len(dimensions) = 3
    /\ Len(results) >= 4 /\ Len(dimensions[1].vals) # Len(dimensions[2].vals)

\* C9 as stated: when the fold meets a list that is no multiple of the
\* axis's value count, run fails with an SMRTError and returns no entity.
C9_ShapeMismatchIsSMRTError ==
    (pc = "done" /\ uneven) => (outcome = "SMRTError" /\ entity = NoEntity)

\* C10 as stated: run fails with an SMRTError, before any unit is executed,
\* whenever the values of the caller's snowpack_dimension are not as many
\* as the snowpacks.
CallerValuesMismatch ==
    /\ snowpack_dimension.kind = "tuple" /\ ~snowpack_dimension.valsNone
    /\ Len(snowpack_dimension.vals) # Len(snowpack.items)

NoUnitExecuted == results = <<>> /\ slots = <<>>

C10_AsClaimed ==
    (pc # "start" /\ CallerValuesMismatch) =>
        (pc = "done" /\ outcome = "SMRTError" /\ NoUnitExecuted)

\* C10 amended: for a plain sequence of snowpacks, run fails with an
\* SMRTError, before any unit is executed, whenever the values of the
\* caller's snowpack_dimension are not as many as the snowpacks; for a dict
\* the caller's snowpack_dimension is replaced by the keys and is not checked.
C10_SequenceLengthChecked ==
    /\ (pc # "start" /\ CallerValuesMismatch /\ snowpack.kind = "list") =>
          (pc = "done" /\ outcome = "SMRTError" /\ NoUnitExecuted)
    /\ (pc # "start" /\ snowpack.kind = "dict") =>
          \/ Prepared /\ dimensions[Len(dimensions)].vals = snowpack.keys
          \/ runner = "none" /\ parallel_computation /\ progressbar

C10_Witness ==
    /\ pc = "done" /\ CallerValuesMismatch /\ snowpack.kind = "list"
    /\ Len(snowpack.items) > 1 /\ Len(snowpack_dimension.vals) > 0

\* ======================================== concat_results called on its own
\* the channel maps of the results given to concat_results
ChannelMaps ==
    {EmptyMap,
     "19V" :> [frequency |-> 19, theta |-> 55],
     "37V" :> [frequency |-> 37, theta |-> 55],
     ("19V" :> [frequency |-> 19, theta |-> 40])
        @@ ("37V" :> [frequency |-> 37, theta |-> 40])}

ConcatEntities ==
    {[cls |-> c, dims |-> <<>>, coords |-> <<>>, data |-> <<1>>, channel_map |-> m] :
        c \in {"P", "A"}, m \in ChannelMaps}

ListsUpTo(S, n) == UNION {[1..k -> S] : k \in 0..n}

\* a (name, values) tuple, a pandas Index, or a value of another type
ConcatCoords ==
    {DimTuple("time", Times(m)) : m \in 0..(MaxList + 1)}
    \cup {[DimTuple("time", Times(m)) EXCEPT !.kind = "index"] : m \in 1..MaxList}
    \cup {[DimTuple("time", Times(1)) EXCEPT !.kind = "list"]}

InitConcat ==
    /\ pc = "concat" /\ NoRun /\ MadeModel /\ IfaceIdle /\ SubstrateIdle
    /\ SelIdle
    /\ result_list \in ListsUpTo(ConcatEntities, MaxList)
    /\ coord \in ConcatCoords
    /\ concat_out = NoConcat

ConcatCall ==
    /\ pc = "concat" /\ concat_out = NoConcat
    /\ concat_out' = concat_results(result_list, coord)
    /\ UNCHANGED <<result_list, coord>> /\ UNCHANGED inputs
    /\ UNCHANGED unit_log
    /\ UNCHANGED <<pc, simulations, dimensions, strategy, slots, results,
                   outcome, entity, uneven, overtaken>>
    /\ UNCHANGED make_vars /\ UNCHANGED iface_vars
    /\ UNCHANGED substrate_vars /\ UNCHANGED sel_vars

NextConcat == ConcatCall

SpecConcat == InitConcat /\ [][NextConcat]_vars

MapsDiffer ==
    \E i \in DOMAIN result_list :
        result_list[i].channel_map # result_list[1].channel_map

AllChannels == UNION {DOMAIN result_list[i].channel_map : i \in DOMAIN result_list}

\* C7 as stated: with channel maps that are not all equal and a (name,
\* values) axis, the merged map holds every channel of every result, each
\* with its own coordinates plus one entry, keyed by the name of the new
\* axis, whose value is the axis value of the result it came from.
C7_ChannelsTaggedWithAxis ==
    (concat_out.status = "ok" /\ MapsDiffer /\ coord.kind = "tuple") =>
        LET merged == concat_out.result.channel_map
        IN  /\ DOMAIN merged = AllChannels
            /\ \A ch \in DOMAIN merged :
                  \E i \in DOMAIN result_list :
                      /\ ch \in DOMAIN result_list[i].channel_map
                      /\ merged[ch] = (coord.name :> coord.vals[i])
                                          @@ result_list[i].channel_map[ch]

\* C8: concat_results raises an SMRTError and builds nothing when the
\* results are not all of one class; when they are and it returns, the
\* entity returned is of that class.
MixedClasses ==
    \E i, j \in DOMAIN result_list : result_list[i].cls # result_list[j].cls

C8_OneResultClass ==
    (concat_out.status # "none") =>
        /\ MixedClasses =>
              (concat_out.status = "SMRTError" /\ concat_out.result = NoEntity)
        /\ (~MixedClasses /\ concat_out.status = "ok") =>
              /\ concat_out.result.cls = result_list[1].cls
              /\ concat_out.result.cls \in {"P", "A"}

\* an ActiveResult with a PassiveResult, as many values as results
C8_Witness ==
    /\ concat_out.status = "SMRTError" /\ MixedClasses
    /\ coord.kind = "tuple" /\ Len(coord.vals) = Len(result_list)

\* ===================================== the default labels, the two flags
\* the descriptor of the snowpack axis, the last one
SnowpackAxis == dimensions[Len(dimensions)]

\* the snowpack argument is a plain sequence and the values of its axis
\* are left to run: no snowpack_dimension, or (name, None)
ValuesOmitted ==
    /\ snowpack.kind = "list"
    /\ snowpack_dimension.kind = "none" \/ snowpack_dimension.valsNone

C11_WitnessNamed ==
    /\ pc = "done" /\ outcome = "ok" /\ snowpack.kind = "list"
    /\ snowpack_dimension.valsNone /\ Len(snowpack.items) = MaxSnow
    /\ entity.dims[Len(entity.dims)] = "time"

BothFlags == parallel_computation /\ progressbar

\* C12 as stated: every call of run with progressbar=True and
\* parallel_computation=True fails with an SMRTError and executes no unit,
\* for every value of the runner argument.
C12_AsClaimed ==
    (pc # "start" /\ BothFlags) =>
        (pc = "done" /\ outcome = "SMRTError" /\ NoUnitExecuted)

\* C12 amended: with runner=None, every call of run with progressbar=True
\* and parallel_computation=True fails with an SMRTError and executes no
\* unit; with a runner given by the caller the two flags are not looked at
\* and the units are handed to that runner.
C12_FlagsRefusedWithoutRunner ==
    /\ (pc # "start" /\ BothFlags /\ runner = "none") =>
          (pc = "done" /\ outcome = "SMRTError" /\ NoUnitExecuted)
    /\ (pc # "start" /\ BothFlags /\ runner # "none") =>
          \/ Prepared /\ strategy = runner
          \/ pc = "done" /\ ~Prepared
                /\ prepare_simulations(sensor, snowpack, snowpack_dimension).status
                      = outcome

\* both flags, no runner, arguments prepare_simulations accepts
C12_Witness ==
    /\ pc = "done" /\ BothFlags /\ runner = "none" /\ outcome = "SMRTError"
    /\ prepare_simulations(sensor, snowpack, snowpack_dimension).status = "ok"
    /\ Len(snowpack.items) > 1

\* ======================================== make_model, then Model.run
LegacyValues == {"none", "legacy"}

OptionValues == {"none", "opts"}

\* the arguments of make_model
MakeArgs ==
    {[eo |-> o, ro |-> o, ek |-> ek, rk |-> rk] :
        o \in OptionValues, ek \in LegacyValues, rk \in LegacyValues}

\* the calls of run that follow make_model: one sensor axis, no broadcast
\* capability, one snowpack or a full list, every runner
LegacyRunInputs ==
    /\ RunInputs
    /\ Len(sensor) = 1 /\ Len(sensor[1].vals) = MaxAxisLen
    /\ capability = {}
    /\ snowpack \in {Single(1), List(Ids(MaxSnow))}

InitLegacy ==
    /\ LegacyRunInputs
    /\ PlainModel
    /\ atmosphere \in {"none", "given"}
    /\ pc = "make" /\ simulations = <<>> /\ dimensions = <<>>
    /\ strategy = "none" /\ slots = <<>> /\ results = <<>>
    /\ executed = <<>> /\ solver_calls = {}
    /\ outcome = "none" /\ entity = NoEntity /\ uneven = FALSE
    /\ overtaken = FALSE
    /\ ConcatIdle
    /\ \E a \in MakeArgs :
          /\ emmodel_options = a.eo /\ rtsolver_options = a.ro
          /\ emmodel_kwargs = a.ek /\ rtsolver_kwargs = a.rk
    /\ model = NoModel
    /\ IfaceIdle
    /\ SubstrateIdle
    /\ SelIdle

\* make_model(emmodel, rtsolver, emmodel_options, rtsolver_options,
\*            emmodel_kwargs, rtsolver_kwargs); run is called on its result
MakeModel ==
    /\ pc = "make"
    /\ LET m == make_model(emmodel_options, rtsolver_options,
                           emmodel_kwargs, rtsolver_kwargs)
       IN  /\ model' = m.model
           /\ IF m.status = "ok"
              THEN pc' = "start" /\ UNCHANGED outcome
              ELSE pc' = "done" /\ outcome' = m.status
    /\ UNCHANGED <<simulations, dimensions, strategy, slots, results, entity,
                   uneven, overtaken>>
    /\ UNCHANGED <<emmodel_options, rtsolver_options, emmodel_kwargs,
                   rtsolver_kwargs>>
    /\ UNCHANGED unit_log
    /\ UNCHANGED inputs /\ UNCHANGED concat_vars /\ UNCHANGED iface_vars
    /\ UNCHANGED substrate_vars /\ UNCHANGED sel_vars

NextLegacy ==
    \/ MakeModel
    \/ Next

SpecLegacy == InitLegacy /\ [][NextLegacy]_vars

LegacyKeyword == emmodel_kwargs # "none" \/ rtsolver_kwargs # "none"

C13_WitnessMake ==
    /\ pc = "done" /\ rtsolver_kwargs # "none" /\ emmodel_kwargs = "none"
    /\ outcome = "DeprecationWarning" /\ ~model.built

\* ========================================= make_interface called on its own
\* an instance built before the call
Prebuilt == [id |-> 0, cls |-> "Flat", kw |-> EmptyMap]

\* None, a module name, a class, an instance with and without
\* specular_reflection_matrix, a number
IfaceIdents ==
    {NoIdent}
    \cup {[NoIdent EXCEPT !.kind = "str", !.name = n] : n \in {"flat", "rough"}}
    \cup {[NoIdent EXCEPT !.kind = "class", !.cls = c] : c \in {Flat, Rough}}
    \cup {[NoIdent EXCEPT !.kind = "instance", !.hasop = h, !.inst = Prebuilt] :
            h \in BOOLEAN}
    \cup {[NoIdent EXCEPT !.kind = "number"]}

ArgNames == {"roughness_rms", "corr_length"}

SeqOf(n) == [i \in 1..n |-> 10 + i]

KwValues == {Scalar(7)} \cup {Sequence(SeqOf(n)) : n \in 0..MaxSeq}

KwargSets == UNION {[D -> KwValues] : D \in SUBSET ArgNames}

InitIface ==
    /\ pc = "iface" /\ NoRun /\ MadeModel /\ ConcatIdle /\ SubstrateIdle
    /\ SelIdle
    /\ inst_class_or_modulename \in IfaceIdents
    /\ broadcast \in BOOLEAN
    /\ kwargs \in KwargSets
    /\ constructed = <<>> /\ iface_out = NoIface

MakeInterface ==
    /\ pc = "iface" /\ iface_out = NoIface
    /\ LET r == make_interface(inst_class_or_modulename, broadcast, kwargs)
       IN  /\ iface_out' = [status |-> r.status, value |-> r.value]
           /\ constructed' = r.constructed
    /\ UNCHANGED <<inst_class_or_modulename, broadcast, kwargs>>
    /\ UNCHANGED <<pc, simulations, dimensions, strategy, slots, results,
                   outcome, entity, uneven, overtaken>>
    /\ UNCHANGED unit_log
    /\ UNCHANGED inputs /\ UNCHANGED concat_vars /\ UNCHANGED make_vars
    /\ UNCHANGED substrate_vars /\ UNCHANGED sel_vars

NextIface == MakeInterface

SpecIface == InitIface /\ [][NextIface]_vars

\* the instances the call returned
Returned_instances ==
    IF iface_out.value.kind = "one" THEN <<iface_out.value.inst>>
    ELSE iface_out.value.insts

\* the call built instances of class c only, and returned what it built
BuiltFrom(c) ==
    /\ \A i \in DOMAIN constructed : constructed[i].cls = c.name
    /\ iface_out.status = "ok" =>
          /\ Returned_instances = constructed
          /\ iface_out.value.kind = "one" => Len(constructed) = 1
    /\ iface_out.status = "SMRTError" => ~(c.args \subseteq DOMAIN kwargs)
    /\ iface_out.status \in {"ok", "SMRTError", "IndexError"}

\* C14: make_interface resolves None to the default class Flat, a string to
\* the class registered under that name, a class to itself; an instance
\* that has specular_reflection_matrix is returned as the same object and
\* nothing is constructed; any other value raises an SMRTError and nothing
\* is constructed.
C14_IdentifierCases ==
    (iface_out.status # "none") =>
        LET ident == inst_class_or_modulename
        IN  /\ ident.kind = "none" => BuiltFrom(Flat)
            /\ (ident.kind = "str" /\ ident.name = "flat") => BuiltFrom(Flat)
            /\ (ident.kind = "str" /\ ident.name = "rough") => BuiltFrom(Rough)
            /\ ident.kind = "class" => BuiltFrom(ident.cls)
            /\ (ident.kind = "instance" /\ ident.hasop) =>
                  /\ iface_out.status = "ok"
                  /\ iface_out.value.kind = "one"
                  /\ iface_out.value.inst = ident.inst
                  /\ constructed = <<>>
            /\ (ident.kind = "number" \/ (ident.kind = "instance" /\ ~ident.hasop)) =>
                  /\ iface_out.status = "SMRTError"
                  /\ iface_out.value = NoValue
                  /\ constructed = <<>>

\* an instance given with keywords that would broadcast: it comes back as it is
C14_Witness ==
    /\ iface_out.status = "ok" /\ inst_class_or_modulename.kind = "instance"
    /\ broadcast /\ SequenceLengths(kwargs) # {}
    /\ iface_out.value.inst = Prebuilt

\* a name resolved to its class and built
C14_WitnessName ==
    /\ iface_out.status = "ok" /\ inst_class_or_modulename.kind = "str"
    /\ inst_class_or_modulename.name = "rough"
    /\ iface_out.value.kind = "one" /\ iface_out.value.inst.cls = "Rough"

HasSequence == \E a \in DOMAIN kwargs : kwargs[a].seq

Longest == Max({Len(kwargs[a].v) : a \in {b \in DOMAIN kwargs : kwargs[b].seq}})

EqualLengths ==
    \A a, b \in DOMAIN kwargs :
        (kwargs[a].seq /\ kwargs[b].seq) => Len(kwargs[a].v) = Len(kwargs[b].v)

\* the keywords of the i-th instance: the i-th element of every sequence,
\* every scalar as it is
KeywordsAt(i) ==
    [a \in DOMAIN kwargs |->
        IF kwargs[a].seq THEN Scalar(kwargs[a].v[i]) ELSE kwargs[a]]

\* the identifier names a class and that class accepts the keywords
IdentClass ==
    LET ident == inst_class_or_modulename
    IN  IF ident.kind = "none" THEN Flat
        ELSE IF ident.kind = "str"
        THEN (IF ident.name = "flat" THEN Flat ELSE Rough)
        ELSE ident.cls

BuildsAClass ==
    /\ inst_class_or_modulename.kind \in {"none", "str", "class"}
    /\ IdentClass.args \subseteq DOMAIN kwargs

\* C15 as stated: with broadcast and at least one sequence among the
\* keywords the result is a list of exactly L instances, L the length of the
\* longest sequence, the i-th built with the i-th element of every sequence
\* and every scalar unchanged; otherwise a single instance is returned
\* (read for an identifier that names a class accepting the keywords).
C15_AsClaimed ==
    (iface_out.status # "none" /\ BuildsAClass) =>
        /\ (broadcast /\ HasSequence) =>
              /\ iface_out.status = "ok" /\ iface_out.value.kind = "list"
              /\ Len(iface_out.value.insts) = Longest
        /\ (~broadcast \/ ~HasSequence) =>
              (iface_out.status = "ok" => iface_out.value.kind = "one")

\* C15 amended: when the identifier is None, a name or a class whose
\* constructor accepts the keywords: with broadcast and at least one
\* sequence among the keywords, all sequences being of one length L, the
\* result is a list of exactly L instances, the i-th built with the i-th
\* element of every sequence and every scalar unchanged; when the sequences
\* differ in length the call fails and returns nothing; with no sequence or
\* with broadcast=False one instance is returned, built with the keywords
\* as they are.
C15_BroadcastEqualLengths ==
    (iface_out.status # "none" /\ BuildsAClass) =>
        /\ (broadcast /\ HasSequence /\ EqualLengths) =>
              /\ iface_out.status = "ok" /\ iface_out.value.kind = "list"
              /\ Len(iface_out.value.insts) = Longest
              /\ Len(constructed) = Longest
              /\ \A i \in 1..Longest :
                    /\ iface_out.value.insts[i].kw = KeywordsAt(i)
                    /\ iface_out.value.insts[i].cls = IdentClass.name
        /\ (broadcast /\ HasSequence /\ ~EqualLengths) =>
              (iface_out.status # "ok" /\ iface_out.value = NoValue)
        /\ (~broadcast \/ ~HasSequence) =>
              /\ iface_out.status = "ok" /\ iface_out.value.kind = "one"
              /\ iface_out.value.inst.kw = kwargs
              /\ Len(constructed) = 1

\* one scalar and one sequence of three elements: three instances
C15_Witness ==
    /\ iface_out.status = "ok" /\ broadcast /\ BuildsAClass
    /\ DOMAIN kwargs = ArgNames
    /\ \E a \in ArgNames : ~kwargs[a].seq
    /\ \E a \in ArgNames : kwargs[a].seq /\ Len(kwargs[a].v) = 3
    /\ Len(iface_out.value.insts) = 3

\* two sequences of different lengths
C15_WitnessUnequal ==
    /\ iface_out.status = "IndexError" /\ broadcast /\ BuildsAClass
    /\ HasSequence /\ ~EqualLengths /\ Len(constructed) > 0

\* ============================ substrate_from_interface and its substrates
Frequencies == {19, 37}

Temperatures == {260, 270}

\* the arguments after eps_1: (mu1, npol), (mu_s, mu_i, dphi, npol) or
\* (mu_s, mu_i, m_max, npol)
CallArgs(op) ==
    IF op \in {"specular_reflection_matrix", "emissivity_matrix"}
    THEN {<<1, 2>>, <<3, 2>>}
    ELSE {<<1, 3, 0, 2>>, <<3, 1, 4, 2>>}

\* a run of the rest of the program does not happen here
NoOtherCall ==
    /\ NoRun /\ MadeModel /\ ConcatIdle /\ IfaceIdle /\ SelIdle

InitSubstrate ==
    /\ pc = "decorate" /\ NoOtherCall
    /\ interface_cls \in SUBSET RawOps
    /\ cls \in SUBSET BoundaryOps
    /\ newcls = NoNewcls
    /\ temperature = 0 /\ permittivity_model = "none"
    /\ call = NoCall /\ raw_calls = <<>> /\ sub_out = "none"

SubstrateFrame ==
    /\ UNCHANGED <<simulations, dimensions, strategy, slots, results,
                   outcome, entity, uneven, overtaken>>
    /\ UNCHANGED unit_log
    /\ UNCHANGED inputs /\ UNCHANGED concat_vars /\ UNCHANGED make_vars
    /\ UNCHANGED iface_vars /\ UNCHANGED sel_vars

\* @substrate_from_interface(interface_cls) class cls: ...
Decorate ==
    /\ pc = "decorate"
    /\ newcls' = decorator(cls, interface_cls)
    /\ pc' = "class"
    /\ UNCHANGED <<interface_cls, cls, temperature, permittivity_model, call,
                   raw_calls, sub_out>>
    /\ SubstrateFrame

\* newcls(temperature=..., permittivity_model=...)
Construct ==
    /\ pc = "class"
    /\ temperature' \in Temperatures
    /\ permittivity_model' \in {"none"} \cup PermittivityModels \cup FixedModels
    /\ pc' = "substrate"
    /\ UNCHANGED <<interface_cls, cls, newcls, call, raw_calls, sub_out>>
    /\ SubstrateFrame

\* substrate.op(frequency, eps_1, ...): a synthesized wrapper, a raw
\* operation inherited from interface_cls (it needs eps_2 as well: the call
\* does not fit its parameters), or no attribute of that name
CallOperation ==
    /\ pc = "substrate"
    /\ \E op \in BoundaryOps, f \in Frequencies :
         \E a \in CallArgs(op) :
            LET c == [op |-> op, frequency |-> f, eps_1 |-> 1, args |-> a]
                w == wrapper(permittivity_model, temperature, c)
            IN  /\ call' = c
                /\ IF newcls[op] = "wrapper"
                   THEN sub_out' = w.status /\ raw_calls' = w.raw_calls
                   ELSE /\ sub_out' = IF newcls[op] = "raw" THEN "TypeError"
                                      ELSE "AttributeError"
                        /\ UNCHANGED raw_calls
    /\ pc' = "called"
    /\ UNCHANGED <<interface_cls, cls, newcls, temperature, permittivity_model>>
    /\ SubstrateFrame

\* substrate.permittivity(frequency)
CallPermittivity ==
    /\ pc = "substrate"
    /\ \E f \in Frequencies :
          /\ call' = [op |-> "permittivity", frequency |-> f, eps_1 |-> 0,
                      args |-> <<>>]
          /\ sub_out' = permittivity(permittivity_model, temperature, f)
    /\ pc' = "evaluated"
    /\ UNCHANGED <<interface_cls, cls, newcls, temperature, permittivity_model,
                   raw_calls>>
    /\ SubstrateFrame

NextSubstrate ==
    \/ Decorate
    \/ Construct
    \/ CallOperation
    \/ CallPermittivity

SpecSubstrate == InitSubstrate /\ [][NextSubstrate]_vars

\* C16: a synthesized boundary operation called on a substrate without
\* permittivity model raises an SMRTError and calls no raw operation;
\* otherwise it calls the raw operation once (coherent_transmission_matrix
\* for emissivity_matrix, the operation of the same name for the others)
\* with eps_2 the permittivity model at the frequency of the call and the
\* temperature of the substrate, the other arguments as given.
C16_WrapperLooksUpPermittivity ==
    (pc = "called" /\ newcls[call.op] = "wrapper") =>
        /\ permittivity_model = "none" =>
              (sub_out = "SMRTError" /\ raw_calls = <<>>)
        /\ permittivity_model # "none" =>
              /\ sub_out = "ok"
              /\ Len(raw_calls) = 1
              /\ raw_calls[1].op = (IF call.op = "emissivity_matrix"
                                    THEN "coherent_transmission_matrix"
                                    ELSE call.op)
              /\ raw_calls[1].eps_2
                    = (IF permittivity_model \in FixedModels THEN 3
                       ELSE call.frequency * 1000 + temperature
                            + (IF permittivity_model = "ice" THEN 500 ELSE 0))
              /\ raw_calls[1].frequency = call.frequency
              /\ raw_calls[1].eps_1 = call.eps_1
              /\ raw_calls[1].args = call.args

\* emissivity_matrix called on a substrate that has a permittivity model
C16_Witness ==
    /\ pc = "called" /\ call.op = "emissivity_matrix" /\ sub_out = "ok"
    /\ permittivity_model = "ice" /\ Len(raw_calls) = 1

\* a wrapper called on a substrate without permittivity model
C16_WitnessMissing ==
    /\ pc = "called" /\ newcls[call.op] = "wrapper"
    /\ permittivity_model = "none" /\ sub_out = "SMRTError"

\* C28: permittivity(frequency) gives the model at (frequency, temperature)
\* when the model is a function, the number itself at every frequency when
\* the model is a number, and None only when no model is set.
C28_PermittivityOfModel ==
    (pc = "evaluated") =>
        /\ permittivity_model \in PermittivityModels =>
              /\ sub_out.status = "ok" /\ ~sub_out.isNone
              /\ sub_out.value
                    = call.frequency * 1000 + temperature
                        + (IF permittivity_model = "ice" THEN 500 ELSE 0)
        /\ permittivity_model \in FixedModels =>
              sub_out.status = "ok" /\ ~sub_out.isNone /\ sub_out.value = 3
        /\ (sub_out.status = "ok" /\ sub_out.isNone) =>
              permittivity_model = "none"

\* the part of C28 about functions and about no model, which the code keeps
C28_FunctionOrAbsent ==
    (pc = "evaluated" /\ permittivity_model \notin FixedModels) =>
        /\ sub_out.status = "ok"
        /\ sub_out.isNone <=> permittivity_model = "none"
        /\ ~sub_out.isNone =>
              sub_out.value
                 = call.frequency * 1000 + temperature
                     + (IF permittivity_model = "ice" THEN 500 ELSE 0)

\* C17 as stated: for each boundary operation the class returned by the
\* decorator gives the decorated class's own definition when it has one,
\* otherwise the synthesized wrapper when interface_cls offers the raw
\* operation it is derived from, otherwise no synthesized operation.
C17_ExposedOperations ==
    (pc # "decorate") =>
        \A op \in BoundaryOps :
            /\ op \in cls => newcls[op] = "cls"
            /\ (op \notin cls /\ (IF op = "emissivity_matrix"
                                  THEN "coherent_transmission_matrix"
                                  ELSE op) \in interface_cls) =>
                  newcls[op] = "wrapper"
            /\ (op \notin cls /\ (IF op = "emissivity_matrix"
                                  THEN "coherent_transmission_matrix"
                                  ELSE op) \notin interface_cls) =>
                  newcls[op] # "wrapper"

\* ================================================ the accessors of a Result
\* A labelled array is [dims, coords, data] as in a ResultEntity; what an
\* accessor gives is [status, isFloat, frame, dims, coords, data]: an array,
\* a bare number (isFloat) or a table (frame), or the exception raised.
\* Polarizations are labelled 1 (V) and 2 (H).
Pol == [V |-> 1, H |-> 2]

Array(dims, coords, data) ==
    [status |-> "ok", isFloat |-> FALSE, frame |-> FALSE, dims |-> dims,
     coords |-> coords, data |-> data]

RaisedSel(status) == [NoSelection EXCEPT !.status = status]

Without(seq, k) ==
    [i \in 1..(Len(seq) - 1) |-> IF i < k THEN seq[i] ELSE seq[i + 1]]

\* x with its k-th dimension fixed at index i and dropped
Take(x, k, i) ==
    LET shape == Shape(x)
        newshape == Without(shape, k)
        full(idx) == [m \in DOMAIN shape |->
                        IF m < k THEN idx[m] ELSE IF m = k THEN i ELSE idx[m - 1]]
    IN  Array(Without(x.dims, k), Without(x.coords, k),
              [j \in 1..Product(newshape, 1) |->
                  x.data[Position(shape, full(IndexAt(newshape, j)))]])

HasDim(x, d) == \E k \in DOMAIN x.dims : x.dims[k] = d

HasLabel(x, d, v) ==
    \E i \in DOMAIN x.coords[IndexIn(x.dims, d)] : x.coords[IndexIn(x.dims, d)][i] = v

\* DataArray.sel(drop=True, **kw): every key must be a dimension of the
\* array and every label one of its labels (exact match)
RECURSIVE xr_sel(_, _)
xr_sel(x, kw) ==
    IF \E d \in DOMAIN kw : ~HasDim(x, d) THEN RaisedSel("ValueError")
    ELSE IF \E d \in DOMAIN kw : ~HasLabel(x, d, kw[d]) THEN RaisedSel("KeyError")
    ELSE IF DOMAIN kw = {} THEN x
    ELSE LET d == CHOOSE e \in DOMAIN kw : TRUE
             k == IndexIn(x.dims, d)
         IN  xr_sel(Take(x, k, IndexIn(x.coords[k], kw[d])),
                    [e \in DOMAIN kw \ {d} |-> kw[e]])

\* x.squeeze(): the dimensions of length one are dropped
RECURSIVE squeeze(_)
squeeze(x) ==
    IF \E k \in DOMAIN x.dims : Len(x.coords[k]) = 1
    THEN squeeze(Take(x, CHOOSE k \in DOMAIN x.dims : Len(x.coords[k]) = 1, 1))
    ELSE x

\* (a faulty variant: a single value stays an array without dimensions)
strongsqueeze_no_float(x) == IF x.status # "ok" THEN x ELSE squeeze(x)

\* _strongsqueeze: squeeze, and a single value is given as a bare number
strongsqueeze(x) ==
    IF x.status # "ok" THEN x
    ELSE LET y == squeeze(x)
         IN  IF Len(y.data) = 1
             THEN [y EXCEPT !.isFloat = TRUE, !.dims = <<>>, !.coords = <<>>]
             ELSE y

\* (a faulty variant: every coordinate of the channel is merged into the filter)
channel_filter_all(r, ch) == r.channel_map[ch]

\* {k: v for k, v in self.channel_map[channel].items() if k in self.data.dims}
channel_filter(r, ch) ==
    LET entry == r.channel_map[ch]
    IN  [k \in {e \in DOMAIN entry : HasDim(r, e)} |-> entry[k]]

\* (a faulty variant: the values of the call are kept where both give one)
merge_channel_caller_first(r, ch, kw) ==
    IF ch = "none" THEN kw ELSE kw @@ channel_filter(r, ch)

\* kwargs.update(...): the values of the channel replace those of the call
merge_channel(r, ch, kw) ==
    IF ch = "none" THEN kw ELSE channel_filter(r, ch) @@ kw

TheData(r) == Array(r.dims, r.coords, r.data)

\* PassiveResult.sel_data
passive_sel_data(r, ch, kw) ==
    IF ch # "none" /\ ch \notin DOMAIN r.channel_map THEN RaisedSel("KeyError")
    ELSE xr_sel(TheData(r), merge_channel(r, ch, kw))

\* PassiveResult.Tb
Tb(r, ch, kw) == strongsqueeze(passive_sel_data(r, ch, kw))

\* PassiveResult.TbV and TbH: self.data.sel(polarization=p, **kwargs), squeezed
TbP(r, p, kw) == strongsqueeze(xr_sel(TheData(r), ("polarization" :> Pol[p]) @@ kw))

\* x / y cell by cell, in thousandths, of two selections of the same shape
Ratio(x, y) ==
    IF x.status # "ok" THEN x
    ELSE IF y.status # "ok" THEN y
    ELSE [x EXCEPT !.data = [j \in DOMAIN x.data |-> (1000 * x.data[j]) \div y.data[j]]]

\* PassiveResult.polarization_ratio with the default ratio "H_V"
polarization_ratio(r, kw) ==
    strongsqueeze(Ratio(xr_sel(TheData(r), ("polarization" :> Pol["H"]) @@ kw),
                        xr_sel(TheData(r), ("polarization" :> Pol["V"]) @@ kw)))

\* 4 * pi * cos(deg2rad(theta)), in thousandths
BackscatterFactor == (30 :> 10883) @@ (40 :> 9626) @@ (50 :> 8078) @@ (60 :> 6283)

\* utils.dB (10 * log10) on a whole number, rounded down to whole tens
RECURSIVE Log10(_)
Log10(v) == IF v < 10 THEN 0 ELSE 1 + Log10(v \div 10)

dB(v) == 10 * Log10(v)

\* dB(x) on an array or a bare number: the transform of every value
dB_each(x) ==
    IF x.status # "ok" THEN x ELSE [x EXCEPT !.data = [j \in DOMAIN x.data |-> dB(x.data[j])]]

\* kwargs.pop(name, None): "none" stands for None
Popped(kw, name) == IF name \in DOMAIN kw THEN kw[name] ELSE -1

IsNone(v) == v = -1

\* (a faulty variant: theta is taken when both angles are given)
inconsistent_never(theta, theta_inc) == FALSE

\* theta is not None and theta_inc is not None
\*                                 and not np.all(theta_inc == theta)
inconsistent(theta, theta_inc) ==
    ~IsNone(theta) /\ ~IsNone(theta_inc) /\ theta_inc # theta

\* select_theta(self.data, theta, drop=True, **kwargs) for one angle
select_theta(x, theta, kw) ==
    IF HasDim(x, "theta")
    THEN xr_sel(x, ("theta" :> theta) @@ ("theta_inc" :> theta) @@ kw)
    ELSE xr_sel(x, ("theta_inc" :> theta) @@ kw)

\* select_theta with theta = self.data.theta_inc, the coordinate itself:
\* every incidence angle is kept and, when the array has a theta dimension,
\* each is paired with the theta of the same value
select_all_theta(x, kw) ==
    LET y == xr_sel(x, kw)
    IN  IF y.status # "ok" THEN y
        ELSE IF ~HasDim(y, "theta") THEN y
        ELSE LET kt == IndexIn(y.dims, "theta")
                 angles == y.coords[IndexIn(y.dims, "theta_inc")]
                 shape == Shape(y)
                 newshape == Without(shape, kt)
                 newdims == Without(y.dims, kt)
                 ki == IndexIn(newdims, "theta_inc")
                 full(idx) ==
                     [m \in DOMAIN shape |->
                        IF m < kt THEN idx[m]
                        ELSE IF m = kt THEN IndexIn(y.coords[kt], angles[idx[ki]])
                        ELSE idx[m - 1]]
             IN  IF \E i \in DOMAIN angles : ~HasLabel(y, "theta", angles[i])
                 THEN RaisedSel("KeyError")
                 ELSE Array(newdims, Without(y.coords, kt),
                            [j \in 1..Product(newshape, 1) |->
                                y.data[Position(shape, full(IndexAt(newshape, j)))]])

\* (4 * np.pi * np.cos(np.deg2rad(theta))) * x, theta one angle or the
\* theta_inc coordinate of x
times_factor(x, theta) ==
    IF x.status # "ok" THEN x
    ELSE IF ~IsNone(theta)
    THEN [x EXCEPT !.data = [j \in DOMAIN x.data |-> BackscatterFactor[theta] * x.data[j]]]
    ELSE LET ki == IndexIn(x.dims, "theta_inc")
         IN  [x EXCEPT !.data =
                [j \in DOMAIN x.data |->
                    BackscatterFactor[x.coords[ki][IndexAt(Shape(x), j)[ki]]]
                        * x.data[j]]]

\* (a faulty variant: the dB transform is applied before the factor)
backscatter_dB_first(x, theta, return_backscatter) ==
    IF return_backscatter = "dB" THEN times_factor(dB_each(x), theta)
    ELSE times_factor(x, theta)

\* x = (4 * pi * cos(theta)) * x; return dB(x) if return_backscatter == "dB" else x
backscatter(x, theta, return_backscatter) ==
    IF return_backscatter = "dB" THEN dB_each(times_factor(x, theta))
    ELSE times_factor(x, theta)

\* ActiveResult.sel_data; return_backscatter is "none" (False), "natural"
\* or "dB"
active_sel_data(r, ch, return_backscatter, kw) ==
    IF ch # "none" /\ ch \notin DOMAIN r.channel_map THEN RaisedSel("KeyError")
    ELSE LET kw1 == merge_channel(r, ch, kw)
             theta0 == Popped(kw1, "theta")
             theta_inc == Popped(kw1, "theta_inc")
             rest == [k \in DOMAIN kw1 \ {"theta", "theta_inc"} |-> kw1[k]]
             theta == IF IsNone(theta0) THEN theta_inc ELSE theta0
         IN  IF return_backscatter = "none" THEN xr_sel(TheData(r), kw1)
             ELSE IF inconsistent(theta0, theta_inc) THEN RaisedSel("SMRTError")
             ELSE IF IsNone(theta)
             THEN (IF ~HasDim(r, "theta_inc") THEN RaisedSel("AttributeError")
                   ELSE backscatter(select_all_theta(TheData(r), rest), theta,
                                    return_backscatter))
             ELSE backscatter(select_theta(TheData(r), theta, rest), theta,
                              return_backscatter)

\* ActiveResult.sigma and sigma_dB
sigma(r, ch, kw) == strongsqueeze(active_sel_data(r, ch, "natural", kw))

sigma_dB(r, ch, kw) == strongsqueeze(active_sel_data(r, ch, "dB", kw))

\* Result.return_as_dataframe with channel_axis=None: the selection as a table
return_as_dataframe(r, ch, return_backscatter, kw) ==
    LET x == active_sel_data(r, ch, return_backscatter, kw)
    IN  IF x.status # "ok" THEN x ELSE [x EXCEPT !.frame = TRUE]

\* the polarizations a fixed-polarization accessor asks for
Fixed(pi, p) == ("polarization_inc" :> Pol[pi]) @@ ("polarization" :> Pol[p])

\* sigmaVV .. sigmaVH: self.sigma(polarization_inc=.., polarization=.., **kwargs)
sigmaXY(r, ch, pi, p, kw) == sigma(r, ch, Fixed(pi, p) @@ kw)

\* sigmaVV_dB .. sigmaVH_dB: dB(self.sigmaXY(**kwargs))
sigmaXY_dB(r, ch, pi, p, kw) == dB_each(sigmaXY(r, ch, pi, p, kw))

ActiveAccessors ==
    {"sigma", "sigma_dB", "sigmaVV", "sigmaVV_dB", "sigmaHH", "sigmaHH_dB",
     "sigmaHV", "sigmaHV_dB", "sigmaVH", "sigmaVH_dB", "sigma_as_dataframe",
     "sigma_dB_as_dataframe", "sel_data"}

PassiveAccessors == {"sel_data", "Tb", "TbV", "TbH", "polarization_ratio"}

\* the accessors that take no channel argument of their own and pass every
\* keyword to DataArray.sel
PolarizationAccessors == {"TbV", "TbH", "polarization_ratio"}

\* the accessor a of result r called with channel ch and the keywords kw
Access(r, a, ch, kw) ==
    IF r.cls = "P"
    THEN (IF a = "Tb" THEN Tb(r, ch, kw)
          ELSE IF a = "TbV" THEN TbP(r, "V", kw)
          ELSE IF a = "TbH" THEN TbP(r, "H", kw)
          ELSE IF a = "polarization_ratio" THEN polarization_ratio(r, kw)
          ELSE passive_sel_data(r, ch, kw))
    ELSE IF a = "sel_data" THEN active_sel_data(r, ch, "none", kw)
    ELSE IF a = "sigma" THEN sigma(r, ch, kw)
    ELSE IF a = "sigma_dB" THEN sigma_dB(r, ch, kw)
    ELSE IF a = "sigmaVV" THEN sigmaXY(r, ch, "V", "V", kw)
    ELSE IF a = "sigmaVV_dB" THEN sigmaXY_dB(r, ch, "V", "V", kw)
    ELSE IF a = "sigmaHH" THEN sigmaXY(r, ch, "H", "H", kw)
    ELSE IF a = "sigmaHH_dB" THEN sigmaXY_dB(r, ch, "H", "H", kw)
    ELSE IF a = "sigmaHV" THEN sigmaXY(r, ch, "H", "V", kw)
    ELSE IF a = "sigmaHV_dB" THEN sigmaXY_dB(r, ch, "H", "V", kw)
    ELSE IF a = "sigmaVH" THEN sigmaXY(r, ch, "V", "H", kw)
    ELSE IF a = "sigmaVH_dB" THEN sigmaXY_dB(r, ch, "V", "H", kw)
    ELSE IF a = "sigma_as_dataframe" THEN return_as_dataframe(r, ch, "natural", kw)
    ELSE return_as_dataframe(r, ch, "dB", kw)

\* ---- the results and the calls tried
CellValues(n) == [j \in 1..n |-> 10 + 7 * j]

Angles(n) == [i \in 1..n |-> 20 + 10 * i]

PassiveChannels ==
    ("19V" :> [frequency |-> 19, polarization |-> 1, theta |-> 55])
    @@ ("37H" :> [frequency |-> 37, polarization |-> 2, theta |-> 55])

\* an angle pair that is no backscatter direction is recorded for channel X
ActiveChannels ==
    ("VV30" :> [theta_inc |-> 30, theta |-> 30, polarization_inc |-> 1,
                polarization |-> 1])
    @@ ("HH40" :> [theta_inc |-> 40, theta |-> 40, polarization_inc |-> 2,
                   polarization |-> 2])
    @@ ("X" :> [theta_inc |-> 40, theta |-> 30, polarization_inc |-> 1,
                polarization |-> 1])

Labelled(c, dims, coords, cm) ==
    [cls |-> c, dims |-> dims, coords |-> coords,
     data |-> CellValues(Product([k \in DOMAIN coords |-> Len(coords[k])], 1)),
     channel_map |-> cm]

\* passive results of one frequency (no frequency dimension), of two, and
\* of two snowpacks
PassiveResults ==
    {Labelled("P", <<"polarization">>, <<<<1, 2>>>>, PassiveChannels),
     Labelled("P", <<"frequency", "polarization">>, <<<<37>>, <<1, 2>>>>,
              PassiveChannels),
     Labelled("P", <<"frequency", "polarization">>, <<<<19, 37>>, <<1, 2>>>>,
              PassiveChannels),
     Labelled("P", <<"snowpack", "frequency", "polarization">>,
              <<<<0, 1>>, <<19, 37>>, <<1, 2>>>>, PassiveChannels)}

\* active results with and without a theta dimension
ActiveResults ==
    {Labelled("A", <<"theta_inc", "polarization_inc", "polarization">>,
              <<Angles(n), <<1, 2>>, <<1, 2>>>>, ActiveChannels) : n \in 1..MaxAngles}
    \cup {Labelled("A", <<"theta", "theta_inc", "polarization_inc", "polarization">>,
                   <<Angles(n), Angles(n), <<1, 2>>, <<1, 2>>>>, ActiveChannels) :
            n \in 1..MaxAngles}

PassiveKeywords ==
    {EmptyMap, "frequency" :> 37, "frequency" :> 89, "polarization" :> 1,
     "time" :> 1}

AngleKeywords ==
    {EmptyMap} \cup {"theta" :> a : a \in {30, 40}}
               \cup {"theta_inc" :> a : a \in {30, 40}}
               \cup {("theta" :> a) @@ ("theta_inc" :> b) : a \in {30, 40}, b \in {30, 40}}

\* the fixed-polarization accessors give the polarizations themselves
ActiveKeywords(a) ==
    AngleKeywords
    \cup IF a \in {"sigma", "sigma_dB", "sel_data", "sigma_as_dataframe",
                   "sigma_dB_as_dataframe"}
         THEN {Fixed("V", "V") @@ kw : kw \in AngleKeywords}
         ELSE {}

InitSel ==
    /\ pc = "select" /\ NoRun /\ MadeModel /\ ConcatIdle /\ IfaceIdle
    /\ SubstrateIdle
    /\ result \in PassiveResults \cup ActiveResults
    /\ accessor \in (IF result.cls = "P" THEN PassiveAccessors ELSE ActiveAccessors)
    /\ channel \in (IF accessor \in PolarizationAccessors THEN {"none"}
                    ELSE {"none", "89V"} \cup DOMAIN result.channel_map)
    /\ sel_kwargs \in (IF accessor \in PolarizationAccessors
                       THEN PassiveKeywords \ {"polarization" :> 1}
                       ELSE IF result.cls = "P" THEN PassiveKeywords
                       ELSE ActiveKeywords(accessor))
    /\ sel_out = NoSelection
    /\ OpenIdle

\* result.accessor(channel=channel, **sel_kwargs)
Select ==
    /\ pc = "select"
    /\ sel_out' = Access(result, accessor, channel, sel_kwargs)
    /\ pc' = "selected"
    /\ UNCHANGED <<result, accessor, channel, sel_kwargs, stored, opened>>
    /\ UNCHANGED <<simulations, dimensions, strategy, slots, results,
                   outcome, entity, uneven, overtaken>>
    /\ UNCHANGED unit_log
    /\ UNCHANGED inputs /\ UNCHANGED concat_vars /\ UNCHANGED make_vars
    /\ UNCHANGED iface_vars /\ UNCHANGED substrate_vars

NextSel == Select

SpecSel == InitSel /\ [][NextSel]_vars

\* ---- what the claims expect of a selection
KnownChannel == channel \in DOMAIN result.channel_map

IsDim(d) == \E k \in DOMAIN result.dims : result.dims[k] = d

\* the coordinates the channel records for dimensions the array has
Recorded ==
    IF KnownChannel
    THEN {k \in DOMAIN result.channel_map[channel] : IsDim(k)}
    ELSE {}

\* the effective selection: the recorded coordinates of the channel and,
\* for the other names, the keywords of the call
Effective ==
    [k \in Recorded \cup DOMAIN sel_kwargs |->
        IF k \in Recorded THEN result.channel_map[channel][k] ELSE sel_kwargs[k]]

\* every name of the effective selection is a dimension and every value a
\* label of it
Selectable ==
    \A k \in DOMAIN Effective :
        /\ IsDim(k)
        /\ \E i \in DOMAIN result.coords[IndexIn(result.dims, k)] :
              result.coords[IndexIn(result.dims, k)][i] = Effective[k]

\* the cell of the result at the labels of the effective selection and, for
\* the other dimensions, at the labels of cell j of the array out
SourceCell(out, j) ==
    LET idx == IndexAt(Shape(out), j)
        label(m) ==
            IF result.dims[m] \in DOMAIN Effective THEN Effective[result.dims[m]]
            ELSE out.coords[IndexIn(out.dims, result.dims[m])][idx[IndexIn(out.dims, result.dims[m])]]
    IN  result.data[Position(Shape(result),
                             [m \in DOMAIN result.dims |->
                                 IndexIn(result.coords[m], label(m))])]

\* the dimensions of the result the effective selection leaves
Remaining ==
    LET free(d) == d \notin DOMAIN Effective
    IN  SelectSeq(result.dims, free)

\* C18: sel_data with a channel merges into the filter only the coordinates
\* of the channel whose dimension the array has; the others raise nothing;
\* the selection is the slice of the array at the recorded coordinates, and
\* Tb(channel=c) gives that slice (a bare number when it is one value).
C18_ChannelSelectsRecordedSlice ==
    (pc = "selected" /\ result.cls = "P" /\ KnownChannel) =>
        /\ sel_out.status = "ok" <=> Selectable
        /\ (sel_out.status = "ok" /\ accessor = "sel_data") =>
              /\ sel_out.dims = Remaining
              /\ \A j \in DOMAIN sel_out.data :
                    sel_out.data[j] = SourceCell(sel_out, j)
        /\ (sel_out.status = "ok" /\ accessor = "Tb") =>
              /\ \A k \in DOMAIN sel_out.dims : IsDim(sel_out.dims[k])
              /\ \A j \in DOMAIN sel_out.data :
                    sel_out.data[j] = SourceCell(sel_out, j)
              /\ sel_out.isFloat <=> Len(sel_out.data) = 1

\* a channel recording frequency and theta read on a result that has
\* neither dimension
C18_Witness ==
    /\ pc = "selected" /\ accessor = "Tb" /\ channel = "19V"
    /\ result.dims = <<"polarization">> /\ sel_kwargs = EmptyMap
    /\ sel_out.status = "ok" /\ sel_out.isFloat

\* a channel of a result of two frequencies and two snowpacks
C18_WitnessSlice ==
    /\ pc = "selected" /\ accessor = "Tb" /\ channel = "37H"
    /\ Len(result.dims) = 3 /\ sel_out.status = "ok"
    /\ sel_out.dims = <<"snowpack">>

\* the keywords of the call on a dimension the channel records as well
Overlap == {k \in DOMAIN sel_kwargs : k \in Recorded}

\* C29: sel_data (passive or active) called with a channel and with a
\* keyword on a dimension that the channel records and the array has selects
\* at the value of the channel, not at the value of the call, and raises
\* nothing for the clash; the keywords on the other dimensions are applied
\* as given; the channel map of the result is afterwards what it was.
C29_ChannelValueReplacesKeyword ==
    (pc = "selected" /\ accessor = "sel_data" /\ KnownChannel /\ Overlap # {}) =>
        /\ sel_out.status = "ok" <=> Selectable
        /\ sel_out.status = "ok" =>
              /\ sel_out.dims = Remaining
              /\ \A k \in Overlap : ~\E m \in DOMAIN sel_out.dims : sel_out.dims[m] = k
              /\ \A j \in DOMAIN sel_out.data :
                    sel_out.data[j] = SourceCell(sel_out, j)
        /\ result.channel_map
              = (IF result.cls = "P" THEN PassiveChannels ELSE ActiveChannels)

\* frequency=37 asked of channel 19V on a result of two frequencies
C29_Witness ==
    /\ pc = "selected" /\ accessor = "sel_data" /\ result.cls = "P"
    /\ channel = "19V" /\ sel_kwargs = ("frequency" :> 37)
    /\ result.dims = <<"frequency", "polarization">>
    /\ Len(result.coords[1]) = 2
    /\ sel_out.status = "ok" /\ Len(sel_out.data) = 1
    /\ sel_out.data[1] = result.data[1]

\* polarizations V, V and theta_inc=30 asked of channel HH40 of an active
\* result
C29_WitnessActive ==
    /\ pc = "selected" /\ accessor = "sel_data" /\ result.cls = "A"
    /\ channel = "HH40"
    /\ sel_kwargs = Fixed("V", "V") @@ ("theta_inc" :> 30)
    /\ result.dims = <<"theta_inc", "polarization_inc", "polarization">>
    /\ Len(result.coords[1]) = 2
    /\ sel_out.status = "ok" /\ Len(sel_out.data) = 1
    /\ sel_out.data[1] = result.data[8]

Backscatter == accessor \in ActiveAccessors \ {"sel_data"}

BothAnglesDiffer ==
    /\ "theta" \in DOMAIN Effective /\ "theta_inc" \in DOMAIN Effective
    /\ Effective["theta"] # Effective["theta_inc"]

\* C19: every backscatter accessor of an ActiveResult raises an SMRTError
\* when the effective selection has both theta and theta_inc with different
\* values, from the keywords or from the channel's map.
C19_InconsistentAngleFails ==
    (pc = "selected" /\ result.cls = "A" /\ Backscatter
        /\ (channel = "none" \/ KnownChannel) /\ BothAnglesDiffer) =>
        sel_out.status = "SMRTError"

\* the two angles differ in the keywords
C19_Witness ==
    /\ pc = "selected" /\ result.cls = "A" /\ accessor = "sigmaVV_dB"
    /\ channel = "none" /\ BothAnglesDiffer /\ sel_out.status = "SMRTError"

\* the two angles differ in the channel's map
C19_WitnessChannel ==
    /\ pc = "selected" /\ result.cls = "A" /\ accessor = "sigma"
    /\ channel = "X" /\ sel_kwargs = EmptyMap /\ BothAnglesDiffer
    /\ sel_out.status = "SMRTError"

FixedOf(a) ==
    IF a \in {"sigmaVV", "sigmaVV_dB"} THEN Fixed("V", "V")
    ELSE IF a \in {"sigmaHH", "sigmaHH_dB"} THEN Fixed("H", "H")
    ELSE IF a \in {"sigmaHV", "sigmaHV_dB"} THEN Fixed("H", "V")
    ELSE Fixed("V", "H")

\* C20: sigma_dB(selection) is the dB transform of sigma(selection);
\* sigmaXY_dB(selection) is sigma_dB(polarization_inc=X, polarization=Y,
\* selection); squeezing and the dB transform commute.
C20_dBOfSigma ==
    (pc = "selected" /\ result.cls = "A") =>
        /\ accessor = "sigma_dB" =>
              sel_out = dB_each(sigma(result, channel, sel_kwargs))
        /\ accessor \in {"sigmaVV_dB", "sigmaHH_dB", "sigmaHV_dB", "sigmaVH_dB"} =>
              sel_out = sigma_dB(result, channel, FixedOf(accessor) @@ sel_kwargs)
        /\ LET x == active_sel_data(result, channel, "natural", sel_kwargs)
           IN  strongsqueeze(dB_each(x)) = dB_each(strongsqueeze(x))

\* sigma_dB of a selection that leaves several incidence angles
C20_Witness ==
    /\ pc = "selected" /\ accessor = "sigma_dB" /\ sel_out.status = "ok"
    /\ sel_out.dims = <<"theta_inc">> /\ Len(sel_out.data) > 1
    /\ \E j \in DOMAIN sel_out.data : sel_out.data[j] > 0

\* a fixed-polarization accessor in dB giving a bare number
C20_WitnessFixed ==
    /\ pc = "selected" /\ accessor = "sigmaHV_dB" /\ sel_out.status = "ok"
    /\ sel_out.isFloat /\ sel_out.data[1] > 0

ScalarAccessors ==
    {"Tb", "TbV", "TbH", "polarization_ratio", "sigma", "sigma_dB", "sigmaVV",
     "sigmaVV_dB", "sigmaHH", "sigmaHH_dB", "sigmaHV", "sigmaHV_dB", "sigmaVH",
     "sigmaVH_dB"}

\* the dimensions the accessor itself fixes
FixedNames ==
    IF accessor \in PolarizationAccessors THEN {"polarization"}
    ELSE IF accessor \in ScalarAccessors \ {"Tb", "sigma", "sigma_dB"}
    THEN {"polarization_inc", "polarization"}
    ELSE {}

\* dimension d is reduced to one label by the selection: it is named in the
\* effective selection or fixed by the accessor; a backscatter accessor
\* reads either angle as the incidence angle and pairs theta with it
Chosen(d) ==
    \/ d \in DOMAIN Effective \cup FixedNames
    \/ (result.cls = "A" /\ d = "theta")
    \/ (result.cls = "A" /\ d = "theta_inc" /\ "theta" \in DOMAIN Effective)

\* the positions of the dimensions of the result that the selection leaves
\* with more than one label; a backscatter accessor pairs theta with theta_inc
KeptPositions ==
    LET keep(k) == ~Chosen(result.dims[k]) /\ Len(result.coords[k]) > 1
    IN  SelectSeq([k \in DOMAIN result.dims |-> k], keep)

\* the number of values the selection holds before it is squeezed
SelectedSize ==
    LET size(k) == IF Chosen(result.dims[k]) THEN 1 ELSE Len(result.coords[k])
    IN  Product([k \in DOMAIN result.dims |-> size(k)], 1)

\* C21: every scalar-returning accessor drops the dimensions of length one of
\* its selection and gives a bare number when exactly one value is left,
\* otherwise the array with every dimension of more than one label kept.
C21_SqueezeRule ==
    (pc = "selected" /\ accessor \in ScalarAccessors /\ sel_out.status = "ok") =>
        /\ sel_out.isFloat <=> SelectedSize = 1
        /\ Len(sel_out.data) = SelectedSize
        /\ ~sel_out.isFloat =>
              /\ sel_out.dims = [i \in DOMAIN KeptPositions |-> result.dims[KeptPositions[i]]]
              /\ sel_out.coords = [i \in DOMAIN KeptPositions |-> result.coords[KeptPositions[i]]]
        /\ sel_out.isFloat => sel_out.dims = <<>>

\* TbV() on a passive result of a single frequency
C21_Witness ==
    /\ pc = "selected" /\ accessor = "TbV" /\ sel_kwargs = EmptyMap
    /\ result.dims = <<"frequency", "polarization">>
    /\ Len(result.coords[1]) = 1 /\ sel_out.status = "ok" /\ sel_out.isFloat

\* a dimension of one label dropped and two dimensions kept
C21_WitnessArray ==
    /\ pc = "selected" /\ accessor = "sigma" /\ sel_kwargs = EmptyMap
    /\ channel = "none" /\ Len(result.coords[1]) = 1
    /\ sel_out.status = "ok" /\ ~sel_out.isFloat
    /\ sel_out.dims = <<"polarization_inc", "polarization">>

\* ================================================= units that fail
\* Runs of a Model whose per-layer lists or solver make run_single_simulation
\* fail on some units: the snowpacks have two layers, at most one of them one.
ModelShapes ==
    {[em |-> One, opt |-> One]}
    \cup {[em |-> PerLayer(n), opt |-> One] : n \in 1..3}
    \cup {[em |-> One, opt |-> PerLayer(n)] : n \in 1..3}

LayerCounts(n) == {TwoLayers} \cup {[TwoLayers EXCEPT ![j] = 1] : j \in 1..n}

UnitSnowpacks == {Single(1)} \cup {List(Ids(n)) : n \in 1..(MaxSnow + 1)}

InitUnits ==
    /\ sensor = <<>> /\ capability = {} /\ snowpack_dimension = NoDim
    /\ snowpack \in UnitSnowpacks
    /\ \E a \in RunnerArgs :
          /\ runner = a.runner /\ chunk = a.chunk
          /\ parallel_computation = a.parallel /\ progressbar = a.progress
    /\ atmosphere = "none"
    /\ \E m \in ModelShapes : emmodel = m.em /\ layer_options = m.opt
    /\ rtsolver \in {"class", "instance", "reentrant"}
    /\ nlayer \in LayerCounts(Len(snowpack.items))
    /\ RunIdle /\ ConcatIdle /\ MadeModel /\ IfaceIdle /\ SubstrateIdle /\ SelIdle

NextUnits == Next \/ ParallelRaise

SpecUnits == InitUnits /\ [][NextUnits]_vars

Fails(k) == unit_status(simulations[k]) # "ok"

\* C22: under the sequential strategy the units are executed in input order,
\* one at a time; when the unit function fails on unit k the failure goes to
\* the caller at once: no unit after k is executed, unit k is not retried.
C22_SequentialStopsAtFailure ==
    strategy = "sequential" =>
        /\ slots = <<>>
        /\ \A i \in DOMAIN executed : executed[i] = i
        /\ \A i \in DOMAIN executed : Fails(i) => i = Len(executed)
        /\ (executed # <<>> /\ Fails(Len(executed))) =>
              /\ pc = "done" /\ entity = NoEntity
              /\ outcome = unit_status(simulations[Len(executed)])

\* the second of three units fails
C22_Witness ==
    /\ strategy = "sequential" /\ pc = "done" /\ Len(simulations) = 3
    /\ executed = <<1, 2>> /\ outcome = "AssertionError"

ParallelStrategy == strategy \in {"joblib", "dask"}

\* C23: under the joblib and dask runners, when the unit function fails on
\* a unit, Model.run raises and returns nothing: no result is folded from the
\* units that succeeded, and no unit is executed twice.
C23_ParallelFailureSurfaces ==
    (ParallelStrategy /\ \E k \in DOMAIN simulations : Fails(k)) =>
        /\ pc # "gathered" /\ results = <<>> /\ entity = NoEntity
        /\ pc = "done" => outcome \notin {"ok", "none"}
        /\ \A i, j \in DOMAIN executed : executed[i] = executed[j] => i = j

\* one unit failed after another had succeeded
C23_Witness ==
    /\ ParallelStrategy /\ pc = "done" /\ outcome = "AssertionError"
    /\ \E p \in DOMAIN slots : slots[p].st = "finished"
    /\ \E p \in DOMAIN slots : slots[p].st = "failed"

\* C24: with a solver given as an instance, a run under a multi-process
\* strategy is refused with an error, reentrant or not, and the solver is
\* never called.
C24_SolverInstanceRefused ==
    (ParallelStrategy /\ rtsolver \in {"instance", "reentrant"}) =>
        /\ solver_calls = {}
        /\ pc \in {"gathered", "done"} => outcome \notin {"ok", "none"}

ListMisfit(k) ==
    \/ emmodel.seq /\ emmodel.n # nlayer[simulations[k].sp]
    \/ layer_options.seq /\ layer_options.n # nlayer[simulations[k].sp]

\* C25: run_single_simulation fails, and the solver is not called, on every
\* unit whose snowpack has a number of layers different from the length of
\* the list of EM models or of the list of options.
C25_ListLengthsChecked ==
    \A k \in DOMAIN simulations :
        ListMisfit(k) =>
            /\ k \notin solver_calls
            /\ (\E i \in DOMAIN executed : executed[i] = k) /\ strategy = "sequential" =>
                  pc = "done" /\ outcome \notin {"ok", "none"}

\* ===================================================== open_result
\* A stored array is [mode, dims, coords, data]: mode is the entry 'mode' of
\* its attrs ("none" when there is none), and the labels of its polarization
\* dimensions are texts as the file holds them, written as sequences of
\* character codes (1 for V, 2 for H, 0 for padding).
IsPolarization(d) == d \in {"polarization", "polarization_inc"}

\* data[d] = data[d].astype("U1") for the dimensions d.startswith("polarization")
coerce(st) ==
    [st EXCEPT !.coords =
        [k \in DOMAIN st.coords |->
            IF IsPolarization(st.dims[k])
            THEN [i \in DOMAIN st.coords[k] |-> st.coords[k][i][1]]
            ELSE st.coords[k]]]

\* getattr(data.attrs, 'mode', None): attrs is a dict, its entries are no
\* attributes of it, so the default is what getattr gives
attrs_mode(st) == "none"

\* if (mode is None) or (mode not in 'AP'): guess from 'theta_inc' in data.coords
guessed_mode(st) ==
    LET mode == attrs_mode(st)
    IN  IF mode = "none" \/ mode \notin {"", "A", "P", "AP"}
        THEN (IF \E k \in DOMAIN st.dims : st.dims[k] = "theta_inc" THEN "A" ELSE "P")
        ELSE mode

\* what make_result is given as its sensor: open_result gives the mode, a text
ModeText(mode) == [isSensor |-> FALSE, mode |-> mode, channel_map |-> EmptyMap]

\* make_result(sensor, data): sensor.mode and sensor.channel_map are read; a
\* text has neither attribute
make_result(sens, st) ==
    IF ~sens.isSensor THEN Raised("AttributeError")
    ELSE [status |-> "ok",
          result |-> [cls |-> IF sens.mode = "A" THEN "A" ELSE "P",
                      dims |-> st.dims, coords |-> st.coords, data |-> st.data,
                      channel_map |-> sens.channel_map]]

StoredLabels(pad) ==
    IF pad THEN <<<<1, 0>>, <<2, 0>>>> ELSE <<<<1>>, <<2>>>>

StoredModes == {"A", "P", "none", "X"}

\* the arrays of passive and active results, with and without incidence angle
StoredArrays ==
    {[mode |-> m, dims |-> <<"polarization">>, coords |-> <<StoredLabels(pad)>>,
      data |-> CellValues(2)] : m \in StoredModes, pad \in BOOLEAN}
    \cup {[mode |-> m, dims |-> <<"theta", "polarization">>,
           coords |-> <<Angles(n), StoredLabels(pad)>>,
           data |-> CellValues(2 * n)] :
            m \in StoredModes, pad \in BOOLEAN, n \in 1..MaxAngles}
    \cup {[mode |-> m, dims |-> <<"theta_inc", "polarization_inc", "polarization">>,
           coords |-> <<Angles(n), StoredLabels(pad), StoredLabels(pad)>>,
           data |-> CellValues(4 * n)] :
            m \in StoredModes, pad \in BOOLEAN, n \in 1..MaxAngles}

InitOpen ==
    /\ pc = "open" /\ NoRun /\ MadeModel /\ ConcatIdle /\ IfaceIdle
    /\ SubstrateIdle /\ NoAccess
    /\ stored \in StoredArrays
    /\ opened = NoOpened

OpenFrame ==
    /\ UNCHANGED <<result, accessor, channel, sel_kwargs, sel_out, stored>>
    /\ UNCHANGED <<simulations, dimensions, strategy, slots, results,
                   outcome, entity, uneven, overtaken>>
    /\ UNCHANGED unit_log
    /\ UNCHANGED inputs /\ UNCHANGED concat_vars /\ UNCHANGED make_vars
    /\ UNCHANGED iface_vars /\ UNCHANGED substrate_vars

\* open_result up to the polarization labels
OpenRead ==
    /\ pc = "open"
    /\ opened' = [opened EXCEPT !.data = coerce(stored)]
    /\ pc' = "read"
    /\ OpenFrame

\* open_result from the mode on: make_result(mode, data)
OpenMake ==
    /\ pc = "read"
    /\ LET made == make_result(ModeText(guessed_mode(opened.data)), opened.data)
       IN  opened' = [opened EXCEPT !.status = made.status, !.result = made.result]
    /\ pc' = "opened"
    /\ OpenFrame

NextOpen == OpenRead \/ OpenMake

SpecOpen == InitOpen /\ [][NextOpen]_vars

HasThetaInc == \E k \in DOMAIN stored.dims : stored.dims[k] = "theta_inc"

\* C26: open_result returns a result, never an error; its mode is the mode
\* recorded in the attributes of the stored array when that is 'A' or 'P',
\* and otherwise active exactly when the array has a theta_inc coordinate.
C26_ModeOfOpenedResult ==
    pc = "opened" =>
        /\ opened.status = "ok"
        /\ opened.result.cls =
              IF stored.mode \in {"A", "P"} THEN stored.mode
              ELSE IF HasThetaInc THEN "A" ELSE "P"

\* ============================================ collections of snowpacks
\* Runs on a SensitivityStudy, a dict or a Series of snowpacks, with and
\* without a snowpack_dimension of the caller.
Collections ==
    {Dict(Keys(n), Ids(n)) : n \in 1..MaxSnow}
    \cup {Study(Times(n), Ids(n)) : n \in 1..MaxSnow}
    \cup {Series(Keys(n), Ids(n), t) : n \in 1..MaxSnow, t \in 0..MaxSnow}

CallerDimensions(sp) ==
    {NoDim, [DimTuple("", Times(Len(sp.items))) EXCEPT !.nameIsStr = FALSE]}
    \cup {DimTuple("time", Times(m)) : m \in Len(sp.items)..(Len(sp.items) + 1)}

InitCollections ==
    /\ sensor \in {x \in Sensors : Len(x) <= 1}
    /\ capability = {}
    /\ snowpack \in Collections
    /\ snowpack_dimension \in CallerDimensions(snowpack)
    /\ \E a \in RunnerArgs :
          /\ runner = a.runner /\ chunk = a.chunk
          /\ parallel_computation = a.parallel /\ progressbar = a.progress
    /\ PlainModel /\ atmosphere = "none"
    /\ RunIdle /\ ConcatIdle /\ MadeModel /\ IfaceIdle /\ SubstrateIdle /\ SelIdle

SpecCollections == InitCollections /\ [][Next]_vars

\* run went on to prepare_simulations and was not stopped for its two flags
PrepareTried == pc # "start" /\ ~(runner = "none" /\ BothFlags)

\* the units are the snowpacks of the collection in its order, once per
\* sensor variant
UnitsInCollectionOrder ==
    /\ Len(simulations) = Product(ExpShape, 1)
    /\ \A idx \in IndexTuples(ExpShape) :
          simulations[Position(ExpShape, idx)].sp = snowpack.items[idx[Len(idx)]]

\* C27: for a Series of n >= 1 snowpacks, whatever its labels are,
\* prepare_simulations succeeds, the units are the n snowpacks per sensor
\* variant in the order of the Series, and the snowpack axis is the index
\* of the Series.
C27_SeriesPrepared ==
    (PrepareTried /\ snowpack.kind = "series") =>
        /\ Prepared
        /\ UnitsInCollectionOrder
        /\ SnowpackAxis.kind = "index" /\ SnowpackAxis.vals = snowpack.keys

\* C30: for a dict the snowpack axis is ("snowpack", keys in insertion
\* order), for a SensitivityStudy (variable, values); the units follow the
\* order of the values of the collection; a snowpack_dimension of the
\* caller is dropped without error.
C30_CollectionAxis ==
    (PrepareTried /\ snowpack.kind \in {"dict", "study"}) =>
        /\ Prepared
        /\ UnitsInCollectionOrder
        /\ SnowpackAxis.kind = "tuple" /\ SnowpackAxis.vals = snowpack.keys
        /\ SnowpackAxis.name = IF snowpack.kind = "dict" THEN "snowpack" ELSE "density"
        /\ (pc = "done" /\ strategy \in StandardRunners) =>
              /\ outcome = "ok"
              /\ entity.dims[Len(entity.dims)] = SnowpackAxis.name
              /\ entity.coords[Len(entity.coords)] = snowpack.keys

\* a SensitivityStudy run with a snowpack_dimension of another length
C30_Witness ==
    /\ pc = "done" /\ outcome = "ok" /\ snowpack.kind = "study"
    /\ Len(snowpack.items) > 1 /\ snowpack_dimension.kind = "tuple"
    /\ Len(snowpack_dimension.vals) # Len(snowpack.items)
    /\ entity.dims[Len(entity.dims)] = "density"

\* a dict run with a snowpack_dimension whose name is no text
C30_WitnessDict ==
    /\ pc = "done" /\ outcome = "ok" /\ snowpack.kind = "dict"
    /\ ~snowpack_dimension.nameIsStr /\ entity.coords[Len(entity.coords)] = snowpack.keys

====
